---- MODULE Spec2Model ----
(***************************************************************************)
(* A model of the wallet-analytics and position-lifecycle core of Haku:    *)
(*   - WalletMetricsCalculator::group_trades_into_positions and the scorer *)
(*     (crates/analysis/src/wallet_metrics.rs),                            *)
(*   - AlphaAccelerator::find_ultra_high_confidence_signals                *)
(*     (crates/bot/src/alpha_accelerator.rs),                              *)
(*   - PortfolioMonitor, PositionManager and the persistence step of the   *)
(*     enhanced main loop (crates/bot/src/portfolio_monitor.rs,            *)
(*     position_manager.rs, enhanced_main.rs, persistence.rs).             *)
(* Decimal amounts and prices are integers; f64 scores are integers in     *)
(* thousandths; percentages that the code obtains by Decimal division are  *)
(* kept as exact fractions <<numerator, denominator>>.                     *)
(***************************************************************************)
EXTENDS Integers, Sequences, FiniteSets, TLC

(***************************************************************************)
(* Bounds of the model.                                                    *)
(***************************************************************************)
\* longest trade list handed to group_trades_into_positions
MaxTrades == 3

Wallets == {"w1", "w2"}
Tokens == {"t1", "t2"}
\* timestamps of trade events
Times == {1, 2}
\* <<amount_in, amount_out>> of a trade event
Amounts == {<<1, 2>>, <<2, 1>>}

\* longest Vec<Trade> of one wallet in `recent_trades`
MaxRecent == 2
\* Utc::now() of a scan, in minutes; trade timestamps are 0..AlphaNow
AlphaNow == 2

\* keys of `recent_trades`, in the order the scan's outer loop takes them. The
\* analysis and the trades of each key are drawn freely, so every other
\* iteration order of the HashMap is a renaming of this one.
AlphaWallets == <<"w1", "w2", "w3", "w4">>
\* smart_money_score of a WalletAnalysis, in thousandths
Scores == {700, 800}
\* AlphaAccelerator.convergence_threshold
Thresholds == {2, 3}
\* AlphaAccelerator.time_window_minutes
Windows == {1}
\* amount_in of a recent trade
Volumes == {1, 2}

\* Option<T>: None, Some(x)
None == <<>>
Some(x) == <<x>>
Unwrap(o) == o[1]

(***************************************************************************)
(* core/src/types.rs: Trade, as far as the analytics read it.              *)
(***************************************************************************)
Trade ==
    { [wallet |-> w, token_mint |-> k, side |-> s,
       amount_in |-> a[1], amount_out |-> a[2], timestamp |-> ts] :
         w \in Wallets, k \in Tokens, s \in {"Buy", "Sell"},
         a \in Amounts, ts \in Times }

VARIABLES
    \* group_trades_into_positions: its parameter, its locals, its position
    trades,          \* the `trades` slice
    sorted_trades,   \* `sorted_trades`
    idx,             \* index of the next element of `for trade in sorted_trades`
    open_positions,  \* HashMap<Pubkey, Vec<Trade>>, an absent key as <<>>
    positions,       \* the Vec<TradePosition> built so far
    g_pc             \* "sort", "loop", "done", or "idle"

VARIABLES
    \* find_ultra_high_confidence_signals: self, its locals, its position
    convergence_threshold,  \* self.convergence_threshold
    time_window_minutes,    \* self.time_window_minutes
    visited,         \* number of keys of `recent_trades` the outer loop has taken
    cur,             \* the outer loop's element: None, or Some([wallet, score, n])
                     \* (n: elements of its Vec<Trade> taken so far)
    token_activity,  \* HashMap<Pubkey, TokenActivity>, None for an absent key
    ultra_signals,   \* the Vec<UltraSignal> returned
    buyers,          \* per token the qualifying wallets that bought it in the
                     \* window, read off the input (ghost)
    qualifying,      \* per token the number, the volume and the score sum of
                     \* the qualifying Buys read off the input (ghost)
    a_pc             \* "scan", "done", or "idle"

VARIABLES
    \* the scorer: its parameter, its two results, its position
    metrics,            \* the WalletMetrics scored
    smart_money_score,  \* calculate_simple_smart_score(&metrics), in thousandths
    risk_score,         \* calculate_risk_score(&metrics), in thousandths
    s_pc                \* "score", "done", or "idle"

VARIABLES
    \* the enhanced main loop: portfolio, ledger, and the locals of
    \* check_and_update_positions across its awaits
    portfolio,          \* PortfolioMonitor: positions, closed_trades, daily_stats
    trade_history,      \* TradeHistory in memory: closed_trades, daily_stats
    history_file,       \* the TradeHistory last written to history_path
    notifications,      \* trades passed to telegram.notify_position_closed
    clock,              \* Utc::now(), in minutes
    cycle,              \* `cycle` of the main loop
    prices_to_update,   \* HashMap<Pubkey, (price, mc)>, None for an absent key
    positions_to_close, \* Vec<(Pubkey, Decimal)>
    fetch_failed,       \* mints whose get_token_data returned Err (the warn! lines)
    exit_log,           \* per mint the rule should_exit_position logged this cycle
    opened,             \* number of open_position calls made so far (ghost)
    m_pc                \* "signals", "check", "persist", "sleep", "api", or "idle"

\* Chart Analyzer (chart_analyzer.rs): one call of analyze_entry_exit
VARIABLES
    chart_market,       \* token.market_data of the call's argument, None when idle
    chart_result,       \* the ChartSignal returned, None before the return
    c_pc                \* "call", "done" or "idle"

\* Metrics Calculator (wallet_metrics.rs): one call of calculate_metrics
VARIABLES
    wm_trades,          \* the `trades` slice of the call
    wm_result,          \* the Result<WalletMetrics> returned, None before the return
    wm_pc               \* "call", "done" or "idle"

\* Backtest Engine (backtester.rs): one call of Backtester::run
VARIABLES
    bt_config,          \* self.config, None when idle
    bt_ledger,          \* trade_history.closed_trades of the call
    bt_result,          \* the outcome of run, None before it ends
    bt_pc               \* "call", "done" or "idle"

\* Analysis phase of the enhanced main loop (enhanced_main.rs): run()
VARIABLES
    an_cycle,           \* cycle, the loop counter
    an_clock,           \* Utc::now() in seconds
    an_idx,             \* position of the wallet loop in tracked_wallets
    wallet_analyses,    \* HashMap<Pubkey, WalletAnalysis>, declared before the loop
    all_trades,         \* HashMap<Pubkey, Vec<Trade>>, declared before the loop
    detector_input,     \* arguments of find_ultra_high_confidence_signals, None if not called
    window_now,         \* per wallet the now its windows were cut from in this cycle
    passed,             \* wallets analysed in this cycle with a score >= the minimum
    an_pc               \* "analyze", "sleep" or "idle"

\* Exit rules (position_manager.rs): one call of should_exit_position
VARIABLES
    ex_position,        \* the OpenPosition argument, None when idle
    ex_market,          \* token.market_data of the Token argument, None when idle
    ex_result,          \* the rule that returned true or "none", None before the call ends
    ex_pc               \* "call", "done" or "idle"

\* Entry gate of the enhanced main loop (enhanced_main.rs, scam_check.rs): one
\* ultra signal handled by the signal loop
VARIABLES
    en_signal,          \* the UltraSignal: token_mint and confidence, None when idle
    en_trading,         \* trading_enabled
    en_cache,           \* ScamDetector.cache entry of the mint: None or Some(<<info, timestamp>>)
    en_token,           \* market_data of the Token that get_token_data returned, None before
    en_security,        \* the Result of check_token_security, None before the call
    en_lookup,          \* where that Result came from, "none" before the call
    en_opened,          \* the OpenPosition handed to open_position, None if none was
    en_pc               \* "signal", "security", "decide", "done" or "idle"

\* RPC client with fallback (rpc.rs): calls of execute_with_fallback, one at a time
VARIABLES
    fallbacks,          \* self.fallbacks.len()
    current_index,      \* self.current_index
    attempts,           \* the local `attempts` of the call
    rpc_tried,          \* the endpoints the call has used, in order, with their outcome
    rpc_result,         \* None while the call runs, Some("Ok") or Some("RpcError")
    rpc_calls,          \* calls started so far
    rpc_pc              \* "loop", "returned" or "idle"

groupVars == <<trades, sorted_trades, idx, open_positions, positions, g_pc>>
alphaVars == <<convergence_threshold, time_window_minutes, visited, cur,
               token_activity, ultra_signals, buyers, qualifying, a_pc>>

scoreVars == <<metrics, smart_money_score, risk_score, s_pc>>

mainVars == <<portfolio, trade_history, history_file, notifications, clock, cycle,
              prices_to_update, positions_to_close, fetch_failed, exit_log, opened,
              m_pc>>

chartVars == <<chart_market, chart_result, c_pc>>

metricsVars == <<wm_trades, wm_result, wm_pc>>

backtestVars == <<bt_config, bt_ledger, bt_result, bt_pc>>

analysisVars == <<an_cycle, an_clock, an_idx, wallet_analyses, all_trades,
                  detector_input, window_now, passed, an_pc>>

exitVars == <<ex_position, ex_market, ex_result, ex_pc>>

entryVars == <<en_signal, en_trading, en_cache, en_token, en_security, en_lookup, en_opened, en_pc>>

rpcVars == <<fallbacks, current_index, attempts, rpc_tried, rpc_result, rpc_calls, rpc_pc>>

vars == <<groupVars, alphaVars, scoreVars, mainVars, chartVars, metricsVars,
          backtestVars,
          analysisVars,
          exitVars,
          entryVars,
          rpcVars>>

\* what the actions of one component leave alone
notGroup == <<alphaVars, scoreVars, mainVars, chartVars, metricsVars,
    backtestVars,
    analysisVars,
    exitVars,
    entryVars,
    rpcVars>>
notAlpha == <<groupVars, scoreVars, mainVars, chartVars, metricsVars,
    backtestVars,
    analysisVars,
    exitVars,
    entryVars,
    rpcVars>>
notScore == <<groupVars, alphaVars, mainVars, chartVars, metricsVars,
    backtestVars,
    analysisVars,
    exitVars,
    entryVars,
    rpcVars>>
notMain == <<groupVars, alphaVars, scoreVars, chartVars, metricsVars,
    backtestVars,
    analysisVars,
    exitVars,
    entryVars,
    rpcVars>>
notChart == <<groupVars, alphaVars, scoreVars, mainVars, metricsVars,
    backtestVars,
    analysisVars,
    exitVars,
    entryVars,
    rpcVars>>
notMetrics == <<groupVars, alphaVars, scoreVars, mainVars, chartVars,
    backtestVars,
    analysisVars,
    exitVars,
    entryVars,
    rpcVars>>
notBacktest == <<groupVars, alphaVars, scoreVars, mainVars, chartVars, metricsVars,
    analysisVars,
    exitVars,
    entryVars,
    rpcVars>>
notAnalysis == <<groupVars,
    alphaVars,
    scoreVars,
    mainVars,
    chartVars,
    metricsVars,
    backtestVars,
    exitVars,
    entryVars,
    rpcVars>>
notExit == <<groupVars,
    alphaVars,
    scoreVars,
    mainVars,
    chartVars,
    metricsVars,
    backtestVars,
    analysisVars,
    entryVars,
    rpcVars>>
notEntry == <<groupVars,
    alphaVars,
    scoreVars,
    mainVars,
    chartVars,
    metricsVars,
    backtestVars,
    analysisVars,
    exitVars,
    rpcVars>>
notRpc == <<groupVars,
    alphaVars,
    scoreVars,
    mainVars,
    chartVars,
    metricsVars,
    backtestVars,
    analysisVars,
    exitVars,
    entryVars>>

(***************************************************************************)
(* Position Reconstructor: wallet_metrics.rs, group_trades_into_positions  *)
(***************************************************************************)

\* Insert t behind every element whose timestamp is <= t.timestamp.
RECURSIVE InsertByTimestamp(_, _)
InsertByTimestamp(s, t) ==
    IF s = <<>> THEN <<t>>
    ELSE IF s[Len(s)].timestamp <= t.timestamp THEN Append(s, t)
    ELSE Append(InsertByTimestamp(SubSeq(s, 1, Len(s) - 1), t), s[Len(s)])

RECURSIVE StableSort(_)
StableSort(s) ==
    IF s = <<>> THEN <<>>
    ELSE InsertByTimestamp(StableSort(SubSeq(s, 1, Len(s) - 1)), s[Len(s)])

\* A slip that drops the sort: the events are taken in input order.
UnsortedTrades(ts) == ts

\* sorted_trades = trades.to_vec(); sorted_trades.sort_by_key(|t| t.timestamp)
\* (slice::sort_by_key is a stable sort)
SortByTimestamp(ts) == StableSort(ts)

EmptyOpenPositions == [k \in Tokens |-> <<>>]

\* A slip that keeps only the latest Buy of a token.
ReplaceBuy(open, trade) == [open EXCEPT ![trade.token_mint] = <<trade>>]

\* TradeSide::Buy: open_positions.entry(trade.token_mint).or_insert_with(Vec::new).push(trade)
PushBuy(open, trade) == [open EXCEPT ![trade.token_mint] = Append(@, trade)]

\* open_positions.get_mut(&trade.token_mint): the stack the Sell consults
PendingBuys(open, trade) == open[trade.token_mint]

\* buys.pop(): the value popped
LastBuy(buys) == buys[Len(buys)]

\* buys.pop(): the stack left
PopBuy(open, trade) ==
    [open EXCEPT ![trade.token_mint] = SubSeq(@, 1, Len(@) - 1)]

\* The TradePosition pushed for a Sell that found a Buy.
ClosedPosition(buy_trade, trade) ==
    LET pnl == trade.amount_out - buy_trade.amount_in IN
    [ wallet |-> trade.wallet,
      token_mint |-> trade.token_mint,
      entry_trade |-> buy_trade,
      exit_trade |-> Some(trade),
      pnl |-> Some(pnl),
      pnl_percentage |-> IF buy_trade.amount_in > 0
                         THEN Some(<<pnl * 100, buy_trade.amount_in>>)
                         ELSE Some(<<0, 1>>),
      hold_time_seconds |-> Some(trade.timestamp - buy_trade.timestamp),
      status |-> "Closed" ]

\* The TradePosition pushed for a Buy left on a stack.
OpenTradePosition(token_mint, buy_trade) ==
    [ wallet |-> buy_trade.wallet,
      token_mint |-> token_mint,
      entry_trade |-> buy_trade,
      exit_trade |-> None,
      pnl |-> None,
      pnl_percentage |-> None,
      hold_time_seconds |-> None,
      status |-> "Open" ]

\* One iteration of `for trade in sorted_trades`, on <<open_positions, positions>>.
GroupStep(open, pos, trade) ==
    IF trade.side = "Buy" THEN <<PushBuy(open, trade), pos>>
    ELSE IF PendingBuys(open, trade) # <<>>
         THEN <<PopBuy(open, trade),
                Append(pos, ClosedPosition(LastBuy(PendingBuys(open, trade)), trade))>>
         ELSE <<open, pos>>

\* The orders in which `for (token_mint, buys) in open_positions` may visit the keys.
TokenOrders ==
    { o \in [1..Cardinality(Tokens) -> Tokens] : \A k \in Tokens : \E i \in DOMAIN o : o[i] = k }

RECURSIVE RemainingOpen(_, _, _)
RemainingOpen(open, order, n) ==
    IF n = 0 THEN <<>>
    ELSE RemainingOpen(open, order, n - 1) \o
         [i \in 1..Len(open[order[n]]) |-> OpenTradePosition(order[n], open[order[n]][i])]

\* The loop over the sorted events, as a fold.
RECURSIVE GroupLoop(_, _)
GroupLoop(sorted, n) ==
    IF n = 0 THEN <<EmptyOpenPositions, <<>>>>
    ELSE LET before == GroupLoop(sorted, n - 1) IN
         GroupStep(before[1], before[2], sorted[n])

\* group_trades_into_positions(trades), the keys visited in `order`.
group_trades_into_positions(ts, order) ==
    LET sorted == SortByTimestamp(ts)
        final == GroupLoop(sorted, Len(sorted)) IN
    final[2] \o RemainingOpen(final[1], order, Len(order))

GroupStart ==
    /\ \E n \in 0..MaxTrades : trades \in [1..n -> Trade]
    /\ sorted_trades = <<>>
    /\ idx = 0
    /\ open_positions = EmptyOpenPositions
    /\ positions = <<>>
    /\ g_pc = "sort"

GroupSort ==
    /\ g_pc = "sort"
    /\ sorted_trades' = SortByTimestamp(trades)
    /\ idx' = 1
    /\ g_pc' = "loop"
    /\ UNCHANGED <<trades, open_positions, positions, notGroup>>

GroupBuy ==
    /\ g_pc = "loop"
    /\ idx <= Len(sorted_trades)
    /\ sorted_trades[idx].side = "Buy"
    /\ open_positions' = GroupStep(open_positions, positions, sorted_trades[idx])[1]
    /\ positions' = GroupStep(open_positions, positions, sorted_trades[idx])[2]
    /\ idx' = idx + 1
    /\ UNCHANGED <<trades, sorted_trades, g_pc, notGroup>>

GroupSell ==
    /\ g_pc = "loop"
    /\ idx <= Len(sorted_trades)
    /\ sorted_trades[idx].side = "Sell"
    /\ open_positions' = GroupStep(open_positions, positions, sorted_trades[idx])[1]
    /\ positions' = GroupStep(open_positions, positions, sorted_trades[idx])[2]
    /\ idx' = idx + 1
    /\ UNCHANGED <<trades, sorted_trades, g_pc, notGroup>>

GroupFinish ==
    /\ g_pc = "loop"
    /\ idx > Len(sorted_trades)
    /\ \E order \in TokenOrders :
         positions' = positions \o RemainingOpen(open_positions, order, Len(order))
    /\ g_pc' = "done"
    /\ UNCHANGED <<trades, sorted_trades, idx, open_positions, notGroup>>

GroupNext == GroupSort \/ GroupBuy \/ GroupSell \/ GroupFinish



(***************************************************************************)
(* Signal Convergence Detector: alpha_accelerator.rs                       *)
(***************************************************************************)

\* A recent trade, as far as the scan reads it.
RecentTrade ==
    [token_mint : Tokens, side : {"Buy", "Sell"}, amount_in : Volumes,
     timestamp : 0..AlphaNow]

\* cutoff = Utc::now() - Duration::minutes(self.time_window_minutes)
Cutoff(window) == AlphaNow - window

\* TokenActivity::new
NewTokenActivity ==
    [smart_wallets_bought |-> <<>>, total_volume |-> 0, avg_smart_score |-> 0]

\* token_activity.entry(trade.token_mint).or_insert_with(..)
ActivityEntry(activity, token) ==
    IF activity[token] = None THEN NewTokenActivity ELSE Unwrap(activity[token])

\* The body of `for trade in trades` without the test of trade.side.
ScanAnySide(activity, wallet, score, trade, window) ==
    IF trade.timestamp < AlphaNow - window THEN activity
    ELSE [activity EXCEPT ![trade.token_mint] =
            Some([smart_wallets_bought |->
                      Append((IF @ = None THEN <<>> ELSE @[1].smart_wallets_bought), wallet),
                  total_volume |->
                      (IF @ = None THEN 0 ELSE @[1].total_volume) + trade.amount_in,
                  avg_smart_score |->
                      (IF @ = None THEN 0 ELSE @[1].avg_smart_score) + score])]

\* The body of `for trade in trades` for a wallet whose analysis passed the
\* score test: the two `continue`s, then the three accumulations.
ScanTrade(activity, wallet, score, trade, window) ==
    IF trade.timestamp < Cutoff(window) THEN activity
    ELSE IF trade.side # "Buy" THEN activity
    ELSE LET e == ActivityEntry(activity, trade.token_mint) IN
         [activity EXCEPT ![trade.token_mint] =
            Some([smart_wallets_bought |-> Append(e.smart_wallets_bought, wallet),
                  total_volume |-> e.total_volume + trade.amount_in,
                  avg_smart_score |-> e.avg_smart_score + score])]

\* wallets.get(wallet) is Some(analysis) and not analysis.smart_money_score < 0.8;
\* `analysis` is the Option<smart_money_score>
PassesScore(analysis) == analysis # None /\ ~(Unwrap(analysis) < 800)

Min(a, b) == IF a < b THEN a ELSE b

\* confidence: 0.8 + (wallet_count as f64 * 0.05).min(0.2), in thousandths
Confidence(wallet_count) == 800 + Min(wallet_count * 50, 200)

\* The UltraSignal pushed for a token whose activity reaches the threshold.
MakeSignal(token, act) ==
    LET wallet_count == Len(act.smart_wallets_bought) IN
    [ token_mint |-> token,
      confidence |-> Confidence(wallet_count),
      smart_wallets_count |-> wallet_count,
      avg_smart_score |-> <<act.avg_smart_score, wallet_count>>,
      total_volume |-> act.total_volume ]

\* `for (token, activity) in token_activity`, the keys visited in `order`.
RECURSIVE CollectSignals(_, _, _, _)
CollectSignals(activity, order, n, threshold) ==
    IF n = 0 THEN <<>>
    ELSE LET rest == CollectSignals(activity, order, n - 1, threshold)
             act == activity[order[n]] IN
         IF act # None /\ Len(Unwrap(act).smart_wallets_bought) >= threshold
         THEN Append(rest, MakeSignal(order[n], Unwrap(act)))
         ELSE rest

\* Insert x behind every element whose confidence is >= x.confidence.
RECURSIVE InsertByConfidence(_, _)
InsertByConfidence(s, x) ==
    IF s = <<>> THEN <<x>>
    ELSE IF s[Len(s)].confidence >= x.confidence THEN Append(s, x)
    ELSE Append(InsertByConfidence(SubSeq(s, 1, Len(s) - 1), x), s[Len(s)])

\* ultra_signals.sort_by(|a, b| b.confidence.partial_cmp(&a.confidence)): stable
RECURSIVE SortByConfidence(_)
SortByConfidence(s) ==
    IF s = <<>> THEN <<>>
    ELSE InsertByConfidence(SortByConfidence(SubSeq(s, 1, Len(s) - 1)), s[Len(s)])

\* What the claim calls a qualifying Buy inside the window (for the ghost).
QualifyingBuy(score, trade, window) ==
    /\ score >= 800
    /\ trade.side = "Buy"
    /\ trade.timestamp >= AlphaNow - window

\* no qualifying Buy read yet
NoBuys == [count |-> 0, volume |-> 0, score |-> 0]

AlphaStart ==
    /\ convergence_threshold \in Thresholds
    /\ time_window_minutes \in Windows
    /\ visited = 0
    /\ cur = None
    /\ token_activity = [k \in Tokens |-> None]
    /\ ultra_signals = <<>>
    /\ buyers = [k \in Tokens |-> {}]
    /\ qualifying = [k \in Tokens |-> NoBuys]
    /\ a_pc = "scan"

AlphaIdle ==
    /\ convergence_threshold = 0
    /\ time_window_minutes = 0
    /\ visited = 0
    /\ cur = None
    /\ token_activity = [k \in Tokens |-> None]
    /\ ultra_signals = <<>>
    /\ buyers = [k \in Tokens |-> {}]
    /\ qualifying = [k \in Tokens |-> NoBuys]
    /\ a_pc = "idle"

\* The outer loop takes the next key; its analysis is missing or below 0.8, so
\* its trades are never read.
AlphaSkipWallet ==
    /\ a_pc = "scan"
    /\ cur = None
    /\ visited < Len(AlphaWallets)
    /\ \E analysis \in {Some(x) : x \in Scores} \cup {None} :
         /\ ~PassesScore(analysis)
         /\ visited' = visited + 1
    /\ UNCHANGED <<convergence_threshold, time_window_minutes, cur, token_activity,
                   ultra_signals, buyers, qualifying, a_pc, notAlpha>>

\* The outer loop takes the next key; its analysis passes the score test.
AlphaEnterWallet ==
    /\ a_pc = "scan"
    /\ cur = None
    /\ visited < Len(AlphaWallets)
    /\ \E analysis \in {Some(x) : x \in Scores} \cup {None} :
         /\ PassesScore(analysis)
         /\ visited' = visited + 1
         /\ cur' = Some([wallet |-> AlphaWallets[visited + 1], score |-> Unwrap(analysis), n |-> 0])
    /\ UNCHANGED <<convergence_threshold, time_window_minutes, token_activity,
                   ultra_signals, buyers, qualifying, a_pc, notAlpha>>

\* One iteration of the inner loop.
AlphaTrade ==
    /\ a_pc = "scan"
    /\ cur # None
    /\ Unwrap(cur).n < MaxRecent
    /\ \E trade \in RecentTrade :
         /\ token_activity' = ScanTrade(token_activity, Unwrap(cur).wallet,
                                        Unwrap(cur).score, trade, time_window_minutes)
         /\ buyers' = IF QualifyingBuy(Unwrap(cur).score, trade, time_window_minutes)
                      THEN [buyers EXCEPT ![trade.token_mint] = @ \cup {Unwrap(cur).wallet}]
                      ELSE buyers
         /\ qualifying' =
                IF QualifyingBuy(Unwrap(cur).score, trade, time_window_minutes)
                THEN [qualifying EXCEPT ![trade.token_mint] =
                         [count |-> @.count + 1, volume |-> @.volume + trade.amount_in,
                          score |-> @.score + Unwrap(cur).score]]
                ELSE qualifying
    /\ cur' = Some([Unwrap(cur) EXCEPT !.n = @ + 1])
    /\ UNCHANGED <<convergence_threshold, time_window_minutes, visited,
                   ultra_signals, a_pc, notAlpha>>

\* The inner loop is through with the wallet's trades.
AlphaLeaveWallet ==
    /\ a_pc = "scan"
    /\ cur # None
    /\ cur' = None
    /\ UNCHANGED <<convergence_threshold, time_window_minutes, visited, token_activity,
                   ultra_signals, buyers, qualifying, a_pc, notAlpha>>

\* The outer loop is through: collect, sort, return.
AlphaEmit ==
    /\ a_pc = "scan"
    /\ cur = None
    /\ \E order \in TokenOrders :
         ultra_signals' = SortByConfidence(
             CollectSignals(token_activity, order, Len(order), convergence_threshold))
    /\ a_pc' = "done"
    /\ UNCHANGED <<convergence_threshold, time_window_minutes, visited, cur,
                   token_activity, buyers, qualifying, notAlpha>>

AlphaNext ==
    AlphaSkipWallet \/ AlphaEnterWallet \/ AlphaTrade \/ AlphaLeaveWallet \/ AlphaEmit

(***************************************************************************)
(* Scorer: wallet_metrics.rs, calculate_simple_smart_score and             *)
(* calculate_risk_score. win_rate and max_drawdown are whole percents,     *)
(* sharpe_ratio is in tenths, the scores are in thousandths.               *)
(***************************************************************************)

\* WalletMetrics values, in range and out of range, as far as the scorer reads
\* them (trades_last_7d and trades_last_24h are u64).
MetricsValues ==
    [ win_rate : {-100, 0, 39, 40, 100, 250},
      total_pnl : {-1, 0, 1},
      sharpe_ratio : {None} \cup {Some(x) : x \in {-30, 0, 10, 30}},
      max_drawdown : {-10, 19, 20, 31, 51, 200},
      trades_last_7d : {0, 5},
      trades_last_24h : {0, 51} ]

Abs(x) == IF x < 0 THEN -x ELSE x

\* calculate_simple_smart_score
calculate_simple_smart_score(m) ==
    LET win == m.win_rate * 4                           \* (win_rate / 100.0) * 0.4
        pnl == IF m.total_pnl > 0 THEN 200 ELSE 0
        sharpe == IF m.sharpe_ratio # None              \* (|s|.min(2.0) / 2.0) * 0.2
                  THEN Min(Abs(Unwrap(m.sharpe_ratio)), 20) * 10 ELSE 0
        drawdown == IF m.max_drawdown < 20 THEN 100 ELSE 0
        activity == IF m.trades_last_7d >= 5 THEN 100 ELSE 0
    IN Min(win + pnl + sharpe + drawdown + activity, 1000)   \* score.min(1.0)

\* calculate_risk_score
calculate_risk_score(m) ==
    LET drawdown == IF m.max_drawdown > 50 THEN 300
                    ELSE IF m.max_drawdown > 30 THEN 200 ELSE 0
        win == IF m.win_rate < 40 THEN 300 ELSE 0
        pnl == IF m.total_pnl < 0 THEN 200 ELSE 0
        erratic == IF m.trades_last_24h > 50 THEN 200 ELSE 0
    IN Min(drawdown + win + pnl + erratic, 1000)             \* risk.min(1.0)

ScoreStart ==
    /\ metrics \in MetricsValues
    /\ smart_money_score = None
    /\ risk_score = None
    /\ s_pc = "score"

ScoreIdle ==
    /\ metrics = None
    /\ smart_money_score = None
    /\ risk_score = None
    /\ s_pc = "idle"

\* build_wallet_analysis, lines 335 and 338: the two scores of the metrics
ScoreMetrics ==
    /\ s_pc = "score"
    /\ smart_money_score' = Some(calculate_simple_smart_score(metrics))
    /\ risk_score' = Some(calculate_risk_score(metrics))
    /\ s_pc' = "done"
    /\ UNCHANGED <<metrics, notScore>>

\* The caller drops the analysis and scores the next metrics.
ScoreAgain ==
    /\ s_pc = "done"
    /\ metrics' \in MetricsValues
    /\ smart_money_score' = None
    /\ risk_score' = None
    /\ s_pc' = "score"
    /\ UNCHANGED notScore

ScoreNext == ScoreMetrics \/ ScoreAgain

(***************************************************************************)
(* Metrics Calculator: wallet_metrics.rs, calculate_metrics. An f64 result *)
(* is the fraction <<numerator, denominator>> it is computed from; the     *)
(* fields read off the clock (trade counts and volumes of the last day    *)
(* and week) and the hold-time and percentage averages are left out.       *)
(***************************************************************************)

\* longest trade list handed to calculate_metrics
MaxMetricsTrades == 4

\* the trades of one wallet's history
MetricsTrade == { t \in Trade : t.wallet = "w1" }

\* WalletMetrics::default()
DefaultWalletMetrics ==
    [ total_trades |-> 0, winning_trades |-> 0, losing_trades |-> 0,
      win_rate |-> <<0, 1>>, total_pnl |-> 0, avg_profit_per_trade |-> <<0, 1>>,
      largest_win |-> 0, largest_loss |-> 0,
      sharpe_ratio |-> None, max_drawdown |-> <<0, 1>> ]

\* the locals of calculate_metrics before `for position in &positions`
NewTally ==
    [ total_pnl |-> 0, winning_trades |-> 0, losing_trades |-> 0,
      largest_win |-> 0, largest_loss |-> 0, pnl_values |-> <<>> ]

\* The loop body with `else` in place of `else if pnl < Decimal::ZERO`.
TallyZeroAsLoss(tally, position) ==
    IF position.pnl = None THEN tally
    ELSE LET pnl == Unwrap(position.pnl) IN
         [ total_pnl |-> tally.total_pnl + pnl,
           winning_trades |-> tally.winning_trades + (IF pnl > 0 THEN 1 ELSE 0),
           losing_trades |-> tally.losing_trades + (IF pnl > 0 THEN 0 ELSE 1),
           largest_win |-> IF pnl > tally.largest_win THEN pnl ELSE tally.largest_win,
           largest_loss |-> IF pnl < tally.largest_loss THEN pnl ELSE tally.largest_loss,
           pnl_values |-> Append(tally.pnl_values, pnl) ]

\* The body of `for position in &positions`, as far as the modelled fields go.
Tally(tally, position) ==
    IF position.pnl = None THEN tally
    ELSE LET pnl == Unwrap(position.pnl) IN
         [ total_pnl |-> tally.total_pnl + pnl,
           winning_trades |-> tally.winning_trades + (IF pnl > 0 THEN 1 ELSE 0),
           losing_trades |-> tally.losing_trades + (IF pnl < 0 THEN 1 ELSE 0),
           largest_win |-> IF pnl > tally.largest_win THEN pnl ELSE tally.largest_win,
           largest_loss |-> IF pnl < tally.largest_loss THEN pnl ELSE tally.largest_loss,
           pnl_values |-> Append(tally.pnl_values, pnl) ]

RECURSIVE TallyLoop(_, _)
TallyLoop(pos, n) ==
    IF n = 0 THEN NewTally ELSE Tally(TallyLoop(pos, n - 1), pos[n])

RECURSIVE SumTo(_, _)
SumTo(values, n) == IF n = 0 THEN 0 ELSE SumTo(values, n - 1) + values[n]

\* calculate_sharpe_ratio: mean / std_dev, 0 when std_dev is 0. With n values
\* of sum s and sum of squares q, mean = s/n and variance = (n*q - s*s)/(n*n);
\* the result stands as <<s, n*q - s*s>> for s divided by the root of n*q - s*s.
calculate_sharpe_ratio(pnl_values) ==
    LET n == Len(pnl_values)
        s == SumTo(pnl_values, n)
        q == SumTo([i \in 1..n |-> pnl_values[i] * pnl_values[i]], n)
    IN  IF n = 0 THEN <<0, 1>>
        ELSE IF n * q - s * s > 0 THEN <<s, n * q - s * s>>
        ELSE <<0, 1>>

\* calculate_max_drawdown: the loop over pnl_values on
\* [cumulative_pnl, peak, max_dd], max_dd a percentage as a fraction
RECURSIVE DrawdownLoop(_, _)
DrawdownLoop(pnl_values, n) ==
    IF n = 0 THEN [cumulative_pnl |-> 0, peak |-> 0, max_dd |-> <<0, 1>>]
    ELSE LET before == DrawdownLoop(pnl_values, n - 1)
             cumulative_pnl == before.cumulative_pnl + pnl_values[n]
             peak == IF cumulative_pnl > before.peak THEN cumulative_pnl ELSE before.peak
             drawdown == IF peak > 0 THEN <<(peak - cumulative_pnl) * 100, peak>>
                         ELSE <<0, 1>>
         IN  [ cumulative_pnl |-> cumulative_pnl, peak |-> peak,
               max_dd |-> IF drawdown[1] * before.max_dd[2] > before.max_dd[1] * drawdown[2]
                          THEN drawdown ELSE before.max_dd ]

calculate_max_drawdown(pnl_values) ==
    IF pnl_values = <<>> THEN <<0, 1>>
    ELSE DrawdownLoop(pnl_values, Len(pnl_values)).max_dd

\* Result<WalletMetrics>
Ok(value) == [ok |-> TRUE, value |-> Some(value)]
Err == [ok |-> FALSE, value |-> None]

\* calculate_metrics that rejects an empty history
ErrOnEmpty(ts, order) == IF ts = <<>> THEN Err ELSE Ok(DefaultWalletMetrics)

\* calculate_metrics(trades); `order` is the iteration order of the open
\* positions inside group_trades_into_positions
calculate_metrics(ts, order) ==
    IF ts = <<>> THEN Ok(DefaultWalletMetrics)
    ELSE LET pos == group_trades_into_positions(ts, order)
             tally == TallyLoop(pos, Len(pos))
             closed_positions ==
                 Cardinality({ i \in 1..Len(pos) : pos[i].status = "Closed" })
             total_trades == closed_positions
         IN  Ok([ total_trades |-> total_trades,
                  winning_trades |-> tally.winning_trades,
                  losing_trades |-> tally.losing_trades,
                  win_rate |-> IF total_trades > 0
                               THEN <<tally.winning_trades * 100, total_trades>>
                               ELSE <<0, 1>>,
                  total_pnl |-> tally.total_pnl,
                  avg_profit_per_trade |-> IF total_trades > 0
                                           THEN <<tally.total_pnl, total_trades>>
                                           ELSE <<0, 1>>,
                  largest_win |-> tally.largest_win,
                  largest_loss |-> tally.largest_loss,
                  sharpe_ratio |-> IF tally.pnl_values # <<>>
                                   THEN Some(calculate_sharpe_ratio(tally.pnl_values))
                                   ELSE None,
                  max_drawdown |-> calculate_max_drawdown(tally.pnl_values) ])

MetricsStart ==
    /\ \E n \in 0..MaxMetricsTrades : wm_trades \in [1..n -> MetricsTrade]
    /\ wm_result = None
    /\ wm_pc = "call"

MetricsIdle ==
    /\ wm_trades = <<>>
    /\ wm_result = None
    /\ wm_pc = "idle"

\* one call of calculate_metrics(trades)
MetricsCalculate ==
    /\ wm_pc = "call"
    /\ \E order \in TokenOrders :
           wm_result' = Some(calculate_metrics(wm_trades, order))
    /\ wm_pc' = "done"
    /\ UNCHANGED <<wm_trades, notMetrics>>

MetricsNext == MetricsCalculate

(***************************************************************************)
(* Portfolio: portfolio_monitor.rs, position_manager.rs, chart_analyzer.rs,*)
(* persistence.rs and the tail of the enhanced main loop. Times are        *)
(* minutes; price changes, unrealized_pnl_pct and pnl_pct are whole        *)
(* percents. Every price differs from the entry price by a multiple of 10  *)
(* and the entry price is 100, so the Decimal divisions by entry_price are *)
(* exact and \div computes them.                                           *)
(***************************************************************************)

\* cycles of the main loop that the model runs
MaxCycles == 2
\* MAX_POSITION_SIZE_USD, the default
StartingCapital == 10
\* price_usd of a fetched token
Prices == {80, 110, 140, 160}
\* price_usd at the time a position is opened
EntryPrices == {100}
MarketCaps == {1000}
\* (stop_loss, take_profit) of a position handed to open_position: the main
\* loop's 0.9 * entry and 1.5 * entry, and a crossed pair that a caller of the
\* public API can construct
Brackets == {<<90, 150>>, <<120, 100>>}
\* minutes that pass between two cycles
ClockSteps == {5, 1470, 1510}

\* price changes, volume and liquidity of a fetched token: a quiet market
\* (pattern 0, Hold), a downtrend (pattern 6, StrongSell), an overbought market
\* (pattern 5, Sell)
QuietMarket ==
    [ price_change_5m |-> 0, price_change_1h |-> 0, price_change_24h |-> 0,
      volume_24h |-> 1, liquidity_usd |-> 1 ]
Downtrend ==
    [ price_change_5m |-> -6, price_change_1h |-> -11, price_change_24h |-> -16,
      volume_24h |-> 1, liquidity_usd |-> 1 ]
Overbought ==
    [ price_change_5m |-> 21, price_change_1h |-> 51, price_change_24h |-> 0,
      volume_24h |-> 1, liquidity_usd |-> 1 ]

\* token.market_data with price p, market cap mc and the changes of s
Quote(p, mc, s) ==
    [ price_usd |-> p, market_cap |-> mc,
      price_change_5m |-> s.price_change_5m, price_change_1h |-> s.price_change_1h,
      price_change_24h |-> s.price_change_24h,
      volume_24h |-> s.volume_24h, liquidity_usd |-> s.liquidity_usd ]

\* token.market_data of a fetched Token: every price in a quiet market, and
\* the price between the brackets in a downtrend and in an overbought market
MarketData ==
    { Quote(p, mc, QuietMarket) : p \in Prices, mc \in MarketCaps }
    \cup { Quote(p, mc, s) : p \in Prices \ {80, 140, 160}, mc \in MarketCaps,
                             s \in {Downtrend, Overbought} }

\* Result<Token>: None for Err, Some(market_data) for Ok
FetchResults == {None} \cup {Some(m) : m \in MarketData}

\* A Decimal of the model: `hundredths` hundredths, plus, where `excess` is not
\* 0, a remainder far below one hundredth with the sign of `excess`.
Exactly(price) == [hundredths |-> price * 100, excess |-> 0]

Sgn(n) == IF n > 0 THEN 1 ELSE IF n < 0 THEN -1 ELSE 0

\* price * Decimal::from_f64_retain(x).unwrap(), x given in hundredths.
\* from_f64_retain keeps the digits of the binary double, which is x itself for
\* 1.5 and 1.25, lies above x for 1.3 and 1.35 and below x for 1.4 and 1.2;
\* `excess` is the sign of (double - x).
Retained(price, hundredths, excess) ==
    [hundredths |-> price * hundredths, excess |-> Sgn(price) * excess]

\* ChartSignal; `pattern` is the number in the `reason` text, 0 for the default
ChartSignal(action, confidence, suggested_entry, suggested_exit, pattern) ==
    [ action |-> action, confidence |-> confidence,
      suggested_entry |-> suggested_entry, suggested_exit |-> suggested_exit,
      pattern |-> pattern ]

\* analyze_entry_exit with the overbought test (pattern 5) ahead of the others
OverboughtFirst(market) ==
    LET price == market.price_usd
        price_5m == market.price_change_5m
        price_1h == market.price_change_1h
        price_24h == market.price_change_24h
        volume == market.volume_24h
        liquidity == market.liquidity_usd
    IN  IF price_5m > 20 /\ price_1h > 50
        THEN ChartSignal("Sell", 800, Exactly(0), Exactly(price), 5)
        ELSE IF price_5m > 5 /\ price_1h > 10 /\ price_24h > 20 /\ volume > liquidity * 2
        THEN ChartSignal("StrongBuy", 850, Exactly(price), Retained(price, 150, 0), 1)
        ELSE IF price_5m < -2 /\ price_5m > -5 /\ price_24h > 10
        THEN ChartSignal("Buy", 750, Exactly(price), Retained(price, 130, 1), 2)
        ELSE IF Abs(price_5m) < 1 /\ Abs(price_1h) < 2 /\ 2 * volume > 3 * liquidity
        THEN ChartSignal("Buy", 700, Exactly(price), Retained(price, 125, 0), 3)
        ELSE IF price_5m > 8 /\ price_1h > 15 /\ price_24h < 30 /\ volume > liquidity
        THEN ChartSignal("StrongBuy", 800, Exactly(price), Retained(price, 140, -1), 4)
        ELSE IF price_5m < -5 /\ price_1h < -10 /\ price_24h < -15
        THEN ChartSignal("StrongSell", 900, Exactly(0), Exactly(price), 6)
        ELSE IF volume > liquidity * 3 /\ price_5m > 3
        THEN ChartSignal("Buy", 750, Exactly(price), Retained(price, 135, 1), 7)
        ELSE ChartSignal("Hold", 500, Exactly(price), Retained(price, 120, -1), 0)

\* ChartAnalyzer::analyze_entry_exit: the if-chain over the seven patterns and
\* the default
analyze_entry_exit(market) ==
    LET price == market.price_usd
        price_5m == market.price_change_5m
        price_1h == market.price_change_1h
        price_24h == market.price_change_24h
        volume == market.volume_24h
        liquidity == market.liquidity_usd
    IN  IF price_5m > 5 /\ price_1h > 10 /\ price_24h > 20 /\ volume > liquidity * 2
        THEN ChartSignal("StrongBuy", 850, Exactly(price), Retained(price, 150, 0), 1)
        ELSE IF price_5m < -2 /\ price_5m > -5 /\ price_24h > 10
        THEN ChartSignal("Buy", 750, Exactly(price), Retained(price, 130, 1), 2)
        ELSE IF Abs(price_5m) < 1 /\ Abs(price_1h) < 2 /\ 2 * volume > 3 * liquidity
        THEN ChartSignal("Buy", 700, Exactly(price), Retained(price, 125, 0), 3)
        ELSE IF price_5m > 8 /\ price_1h > 15 /\ price_24h < 30 /\ volume > liquidity
        THEN ChartSignal("StrongBuy", 800, Exactly(price), Retained(price, 140, -1), 4)
        ELSE IF price_5m > 20 /\ price_1h > 50
        THEN ChartSignal("Sell", 800, Exactly(0), Exactly(price), 5)
        ELSE IF price_5m < -5 /\ price_1h < -10 /\ price_24h < -15
        THEN ChartSignal("StrongSell", 900, Exactly(0), Exactly(price), 6)
        ELSE IF volume > liquidity * 3 /\ price_5m > 3
        THEN ChartSignal("Buy", 750, Exactly(price), Retained(price, 135, 1), 7)
        ELSE ChartSignal("Hold", 500, Exactly(price), Retained(price, 120, -1), 0)

\* the snapshots handed to analyze_entry_exit: changes on both sides of every
\* threshold of the seven patterns, volume at and between the multiples of
\* liquidity that the patterns compare it with
Changes5m == {-6, -3, 0, 4, 6, 9, 21}
Changes1h == {-11, 0, 12, 16, 51}
Changes24h == {-16, 0, 15, 25, 35}
ChartVolumes == {2, 3, 4, 6, 7}
ChartLiquidity == {2}
ChartPrices == {0, 100}

ChartSnapshots ==
    { [ price_usd |-> p, market_cap |-> mc,
        price_change_5m |-> c5, price_change_1h |-> c1, price_change_24h |-> c24,
        volume_24h |-> v, liquidity_usd |-> l ] :
      p \in ChartPrices, mc \in MarketCaps, c5 \in Changes5m, c1 \in Changes1h,
      c24 \in Changes24h, v \in ChartVolumes, l \in ChartLiquidity }

ChartStart ==
    /\ chart_market \in {Some(m) : m \in ChartSnapshots}
    /\ chart_result = None
    /\ c_pc = "call"

ChartIdle ==
    /\ chart_market = None
    /\ chart_result = None
    /\ c_pc = "idle"

\* one call of analyze_entry_exit(token)
ChartAnalyze ==
    /\ c_pc = "call"
    /\ chart_result' = Some(analyze_entry_exit(Unwrap(chart_market)))
    /\ c_pc' = "done"
    /\ UNCHANGED <<chart_market, notChart>>

ChartNext == ChartAnalyze

\* should_exit_position with the take-profit test before the stop-loss test
ExitRuleTakeProfitFirst(position, market) ==
    IF market.price_usd >= position.take_profit THEN "take_profit"
    ELSE IF market.price_usd <= position.stop_loss THEN "stop_loss"
    ELSE "none"

\* should_exit_position: the rule whose info! line it writes, "none" when it
\* returns false. Decimal::from_f64_retain(0.85) is the binary double, just
\* below 0.85, so `current_price <= trailing_stop` is 100 * price < 85 * take_profit
\* on integer prices.
ExitRule(position, market) ==
    LET current_price == market.price_usd
        chart_signal == analyze_entry_exit(market)
        hold_time_hours == position.hold_time_minutes \div 60
    IN  IF current_price <= position.stop_loss THEN "stop_loss"
        ELSE IF current_price >= position.take_profit THEN "take_profit"
        ELSE IF chart_signal.action = "StrongSell" THEN "strong_sell"
        ELSE IF chart_signal.action = "Sell" /\ position.unrealized_pnl_pct > 15
        THEN "sell_with_profit"
        ELSE IF hold_time_hours > 24 /\ position.unrealized_pnl_pct < 5 THEN "time"
        ELSE IF position.unrealized_pnl_pct > 30
                /\ 100 * current_price < 85 * position.take_profit
        THEN "trailing_stop"
        ELSE "none"

should_exit_position(position, market) == ExitRule(position, market) # "none"

NoPositions == [k \in Tokens |-> None]

\* DailyStats::default() with the two values PortfolioMonitor::new sets;
\* win_rate is the fraction <<wins * 100, total_trades>>
NewDailyStats(starting_capital) ==
    [ total_trades |-> 0, wins |-> 0, losses |-> 0, win_rate |-> <<0, 1>>,
      total_pnl |-> 0, biggest_win |-> 0, biggest_loss |-> 0,
      avg_win |-> 0, avg_loss |-> 0,
      portfolio_value |-> starting_capital, starting_value |-> starting_capital ]

\* PortfolioMonitor::new
NewPortfolio(starting_capital) ==
    [ positions |-> NoPositions, closed_trades |-> <<>>,
      daily_stats |-> NewDailyStats(starting_capital) ]

\* the OpenPosition built at enhanced_main.rs 348-362, with the bracket as input
NewPosition(token_mint, price, mc, bracket, now) ==
    [ token_mint |-> token_mint, entry_time |-> now,
      entry_price |-> price, entry_mc |-> mc, amount |-> StartingCapital,
      current_price |-> price, current_mc |-> mc,
      unrealized_pnl |-> 0, unrealized_pnl_pct |-> 0,
      stop_loss |-> bracket[1], take_profit |-> bracket[2],
      hold_time_minutes |-> 0 ]

\* PortfolioMonitor::get_position_mints, as a set
get_position_mints(pf) == { k \in Tokens : pf.positions[k] # None }

\* PortfolioMonitor::get_last_closed_trade
get_last_closed_trade(pf) ==
    IF pf.closed_trades = <<>> THEN None
    ELSE Some(pf.closed_trades[Len(pf.closed_trades)])

\* open_position adding the new amount to the position the mint already has
MergePosition(pf, position) ==
    IF pf.positions[position.token_mint] = None
    THEN [pf EXCEPT !.positions[position.token_mint] = Some(position)]
    ELSE [pf EXCEPT !.positions[position.token_mint] =
             Some([Unwrap(@) EXCEPT !.amount = @ + position.amount])]

\* PortfolioMonitor::open_position
open_position(pf, position) ==
    [pf EXCEPT !.positions[position.token_mint] = Some(position)]

\* the DailyStats update counting a trade of pnl 0 neither as win nor as loss
UpdateStatsSkipZero(stats, pnl, is_win) ==
    LET total == stats.total_trades + 1
        wins == IF is_win THEN stats.wins + 1 ELSE stats.wins
    IN  [stats EXCEPT
            !.total_trades = total,
            !.wins = wins,
            !.losses = IF pnl < 0 THEN @ + 1 ELSE @,
            !.total_pnl = @ + pnl,
            !.portfolio_value = @ + pnl,
            !.biggest_win = IF is_win /\ pnl > @ THEN pnl ELSE @,
            !.biggest_loss = IF ~is_win /\ pnl < @ THEN pnl ELSE @,
            !.win_rate = <<wins * 100, total>>]

\* the DailyStats update of close_position
UpdateStats(stats, pnl, is_win) ==
    LET total == stats.total_trades + 1
        wins == IF is_win THEN stats.wins + 1 ELSE stats.wins
    IN  [stats EXCEPT
            !.total_trades = total,
            !.wins = wins,
            !.losses = IF is_win THEN @ ELSE @ + 1,
            !.total_pnl = @ + pnl,
            !.portfolio_value = @ + pnl,
            !.biggest_win = IF is_win /\ pnl > @ THEN pnl ELSE @,
            !.biggest_loss = IF ~is_win /\ pnl < @ THEN pnl ELSE @,
            !.win_rate = <<wins * 100, total>>]

\* PortfolioMonitor::close_position, `now` being its Utc::now()
close_position(pf, token_mint, exit_price, now) ==
    IF pf.positions[token_mint] = None THEN pf
    ELSE LET position == Unwrap(pf.positions[token_mint])
             pnl == ((exit_price - position.entry_price) * position.amount)
                        \div position.entry_price
             pnl_pct == ((exit_price - position.entry_price) * 100)
                            \div position.entry_price
             is_win == pnl > 0
             trade == [ token_mint |-> token_mint,
                        entry_time |-> position.entry_time, exit_time |-> now,
                        entry_price |-> position.entry_price,
                        exit_price |-> exit_price,
                        pnl |-> pnl, pnl_pct |-> pnl_pct,
                        hold_time_minutes |-> now - position.entry_time,
                        is_win |-> is_win ]
         IN  [ positions |-> [pf.positions EXCEPT ![token_mint] = None],
               closed_trades |-> Append(pf.closed_trades, trade),
               daily_stats |-> UpdateStats(pf.daily_stats, pnl, is_win) ]

\* the body of the loop of update_prices for one position
RefreshPosition(position, price, now) ==
    [position EXCEPT
        !.current_price = price[1],
        !.current_mc = price[2],
        !.unrealized_pnl = ((price[1] - position.entry_price) * position.amount)
                               \div position.entry_price,
        !.unrealized_pnl_pct = ((price[1] - position.entry_price) * 100)
                                   \div position.entry_price,
        !.hold_time_minutes = now - position.entry_time]

\* PortfolioMonitor::update_prices
update_prices(pf, prices, now) ==
    [pf EXCEPT !.positions =
        [k \in Tokens |->
            IF pf.positions[k] # None /\ prices[k] # None
            THEN Some(RefreshPosition(Unwrap(pf.positions[k]), Unwrap(prices[k]), now))
            ELSE pf.positions[k]]]

\* the orders in which HashMap::keys can yield the mints of the open positions
MintOrders(pf) ==
    LET mints == get_position_mints(pf)
    IN  { o \in [1..Cardinality(mints) -> mints] :
            \A i, j \in DOMAIN o : i # j => o[i] # o[j] }

\* the locals of check_and_update_positions before its loop
NoFetches ==
    [ prices |-> NoPositions, to_close |-> <<>>, failed |-> {}, log |-> NoPositions ]

\* a failed fetch taken as an exit at the last known price
CloseOnFetchError(pf, acc, token_mint) ==
    [acc EXCEPT !.failed = @ \cup {token_mint},
                !.to_close = Append(@, <<token_mint,
                                 Unwrap(pf.positions[token_mint]).current_price>>)]

\* the Err arm of the loop of check_and_update_positions: a warn! line
OnFetchError(pf, acc, token_mint) ==
    [acc EXCEPT !.failed = @ \cup {token_mint}]

\* the Ok arm of the loop of check_and_update_positions
OnFetchOk(pf, acc, token_mint, market) ==
    LET current_price == market.price_usd
        priced == [acc EXCEPT !.prices[token_mint] =
                                  Some(<<current_price, market.market_cap>>)]
    IN  IF pf.positions[token_mint] = None THEN priced
        ELSE LET position == Unwrap(pf.positions[token_mint])
             IN  IF should_exit_position(position, market)
                 THEN [priced EXCEPT
                          !.to_close = Append(@, <<token_mint, current_price>>),
                          !.log[token_mint] = Some(ExitRule(position, market))]
                 ELSE priced

\* the loop of check_and_update_positions over the first n mints
RECURSIVE FetchLoop(_, _, _, _)
FetchLoop(pf, mints, results, n) ==
    IF n = 0 THEN NoFetches
    ELSE LET acc == FetchLoop(pf, mints, results, n - 1)
             token_mint == mints[n]
         IN  IF results[token_mint] = None
             THEN OnFetchError(pf, acc, token_mint)
             ELSE OnFetchOk(pf, acc, token_mint, Unwrap(results[token_mint]))

\* the closing loop of check_and_update_positions over the first n entries
RECURSIVE CloseLoop(_, _, _, _)
CloseLoop(pf, to_close, n, now) ==
    IF n = 0 THEN pf
    ELSE close_position(CloseLoop(pf, to_close, n - 1, now),
                        to_close[n][1], to_close[n][2], now)

\* Decimal::to_string and Pubkey::to_string
to_string(x) == <<"string", x>>

\* the SerializableDailyStats of TradeHistory::new
NewSerializableStats(starting_value) ==
    [ total_trades |-> 0, wins |-> 0, losses |-> 0, win_rate |-> <<0, 1>>,
      total_pnl |-> to_string(0), biggest_win |-> to_string(0),
      biggest_loss |-> to_string(0),
      portfolio_value |-> to_string(starting_value),
      starting_value |-> to_string(starting_value) ]

\* TradeHistory::new
NewTradeHistory(starting_value, now) ==
    [ closed_trades |-> <<>>, daily_stats |-> NewSerializableStats(starting_value),
      last_updated |-> now ]

\* the SerializableClosedTrade that add_closed_trade builds
SerializableClosedTrade(trade) ==
    [ token_mint |-> to_string(trade.token_mint),
      entry_time |-> trade.entry_time, exit_time |-> trade.exit_time,
      entry_price |-> to_string(trade.entry_price),
      exit_price |-> to_string(trade.exit_price),
      pnl |-> to_string(trade.pnl), pnl_pct |-> trade.pnl_pct,
      hold_time_minutes |-> trade.hold_time_minutes, is_win |-> trade.is_win ]

\* TradeHistory::add_closed_trade
add_closed_trade(history, trade, now) ==
    [history EXCEPT !.closed_trades = Append(@, SerializableClosedTrade(trade)),
                    !.last_updated = now]

\* TradeHistory::update_daily_stats
update_daily_stats(history, stats, now) ==
    [history EXCEPT
        !.daily_stats =
            [ total_trades |-> stats.total_trades, wins |-> stats.wins,
              losses |-> stats.losses, win_rate |-> stats.win_rate,
              total_pnl |-> to_string(stats.total_pnl),
              biggest_win |-> to_string(stats.biggest_win),
              biggest_loss |-> to_string(stats.biggest_loss),
              portfolio_value |-> to_string(stats.portfolio_value),
              starting_value |-> to_string(stats.starting_value) ],
        !.last_updated = now]

\* main on entering the first cycle of its loop: a new portfolio, no history
\* file, cycle = 1
MainStart ==
    /\ portfolio = NewPortfolio(StartingCapital)
    /\ trade_history = NewTradeHistory(StartingCapital, 0)
    /\ history_file = None
    /\ notifications = <<>>
    /\ clock = 0
    /\ cycle = 1
    /\ prices_to_update = NoPositions
    /\ positions_to_close = <<>>
    /\ fetch_failed = {}
    /\ exit_log = NoPositions
    /\ opened = 0
    /\ m_pc = "signals"

MainIdle ==
    /\ portfolio = None
    /\ trade_history = None
    /\ history_file = None
    /\ notifications = <<>>
    /\ clock = 0
    /\ cycle = 0
    /\ prices_to_update = NoPositions
    /\ positions_to_close = <<>>
    /\ fetch_failed = {}
    /\ exit_log = NoPositions
    /\ opened = 0
    /\ m_pc = "idle"

\* enhanced_main.rs 432-434 and 226-230: the sleep that ends a cycle and the
\* top of the loop; the log of the cycle that ended is set aside
MainSleep ==
    /\ m_pc = "sleep"
    /\ cycle < MaxCycles
    /\ \E step \in ClockSteps : clock' = clock + step
    /\ cycle' = cycle + 1
    /\ fetch_failed' = {}
    /\ exit_log' = NoPositions
    /\ m_pc' = "signals"
    /\ UNCHANGED <<portfolio, trade_history, history_file, notifications,
                   prices_to_update, positions_to_close, opened, notMain>>

\* this cycle's signal loop has opened a position on the mint: the scan emits
\* one UltraSignal per mint, and the clock moves between two cycles
OpenedThisCycle(pf, token_mint, now) ==
    /\ pf.positions[token_mint] # None
    /\ Unwrap(pf.positions[token_mint]).entry_time = now

\* enhanced_main.rs 281-364: a signal passed every gate and its position is
\* opened, whether or not the mint already has an open position; callers of the
\* public open_position can pass any bracket
MainOpenPosition ==
    /\ m_pc = "signals"
    /\ \E token_mint \in Tokens, price \in EntryPrices, mc \in MarketCaps,
          bracket \in Brackets :
           /\ ~OpenedThisCycle(portfolio, token_mint, clock)
           /\ portfolio' = open_position(portfolio,
                                NewPosition(token_mint, price, mc, bracket, clock))
    /\ opened' = opened + 1
    /\ UNCHANGED <<trade_history, history_file, notifications, clock, cycle,
                   prices_to_update, positions_to_close, fetch_failed, exit_log,
                   m_pc, notMain>>

\* check_and_update_positions 25-29: no open position, nothing to do
MainNoPositions ==
    /\ m_pc = "signals"
    /\ get_position_mints(portfolio) = {}
    /\ m_pc' = "persist"
    /\ UNCHANGED <<portfolio, trade_history, history_file, notifications, clock,
                   cycle, prices_to_update, positions_to_close, fetch_failed,
                   exit_log, opened, notMain>>

\* check_and_update_positions 25-61: the fetch loop, each get_token_data
\* answering Ok or Err
MainFetch ==
    /\ m_pc = "signals"
    /\ get_position_mints(portfolio) # {}
    /\ \E mints \in MintOrders(portfolio),
          results \in [get_position_mints(portfolio) -> FetchResults] :
           LET acc == FetchLoop(portfolio, mints, results, Len(mints))
           IN  /\ prices_to_update' = acc.prices
               /\ positions_to_close' = acc.to_close
               /\ fetch_failed' = acc.failed
               /\ exit_log' = acc.log
    /\ m_pc' = "check"
    /\ UNCHANGED <<portfolio, trade_history, history_file, notifications, clock,
                   cycle, opened, notMain>>

\* check_and_update_positions 63-71: update_prices, then the closes
MainApply ==
    /\ m_pc = "check"
    /\ portfolio' = CloseLoop(update_prices(portfolio, prices_to_update, clock),
                              positions_to_close, Len(positions_to_close), clock)
    /\ prices_to_update' = NoPositions
    /\ positions_to_close' = <<>>
    /\ m_pc' = "persist"
    /\ UNCHANGED <<trade_history, history_file, notifications, clock, cycle,
                   fetch_failed, exit_log, opened, notMain>>

\* enhanced_main.rs 402-417: the last closed trade is notified and added to
\* the history, and the history is saved (the save can fail)
MainPersist ==
    /\ m_pc = "persist"
    /\ get_last_closed_trade(portfolio) # None
    /\ LET closed_trade == Unwrap(get_last_closed_trade(portfolio))
           history == update_daily_stats(
                          add_closed_trade(trade_history, closed_trade, clock),
                          portfolio.daily_stats, clock)
       IN  /\ notifications' = Append(notifications, closed_trade)
           /\ trade_history' = history
           /\ \E saved \in BOOLEAN :
                  history_file' = IF saved THEN Some(history) ELSE history_file
    /\ m_pc' = "sleep"
    /\ UNCHANGED <<portfolio, clock, cycle, prices_to_update, positions_to_close,
                   fetch_failed, exit_log, opened, notMain>>

\* enhanced_main.rs 402: no closed trade yet, nothing to save
MainNothingClosed ==
    /\ m_pc = "persist"
    /\ get_last_closed_trade(portfolio) = None
    /\ m_pc' = "sleep"
    /\ UNCHANGED <<portfolio, trade_history, history_file, notifications, clock, cycle,
                   prices_to_update, positions_to_close, fetch_failed, exit_log,
                   opened, notMain>>

MainNext ==
    \/ MainOpenPosition \/ MainNoPositions \/ MainFetch \/ MainApply
    \/ MainPersist \/ MainNothingClosed \/ MainSleep

(***************************************************************************)
(* PortfolioMonitor driven call by call: any sequence of open_position,    *)
(* update_prices and close_position (portfolio_monitor.rs).                *)
(***************************************************************************)

\* open_position calls in a call sequence
MaxOpened == 3
\* Utc::now() at a call
ApiTimes == {0, 5}
\* prices handed to update_prices and close_position
ApiPrices == {80, 100, 110}

\* the HashMap<Pubkey, (Decimal, Decimal)> arguments of update_prices
PriceMaps ==
    [Tokens -> {None} \cup {Some(<<p, mc>>) : p \in ApiPrices, mc \in MarketCaps}]

\* PortfolioMonitor::new, no call made yet
PortfolioStart ==
    /\ portfolio = NewPortfolio(StartingCapital)
    /\ trade_history = None
    /\ history_file = None
    /\ notifications = <<>>
    /\ clock = 0
    /\ cycle = 0
    /\ prices_to_update = NoPositions
    /\ positions_to_close = <<>>
    /\ fetch_failed = {}
    /\ exit_log = NoPositions
    /\ opened = 0
    /\ m_pc = "api"

\* a call of open_position with a position built at `now`
PortfolioOpen ==
    /\ m_pc = "api"
    /\ opened < MaxOpened
    /\ \E token_mint \in Tokens, price \in EntryPrices, mc \in MarketCaps,
          bracket \in Brackets, now \in ApiTimes :
           /\ now >= clock
           /\ clock' = now
           /\ portfolio' = open_position(portfolio,
                                NewPosition(token_mint, price, mc, bracket, now))
    /\ opened' = opened + 1
    /\ UNCHANGED <<trade_history, history_file, notifications, cycle,
                   prices_to_update, positions_to_close, fetch_failed, exit_log,
                   m_pc, notMain>>

\* a call of update_prices
PortfolioUpdatePrices ==
    /\ m_pc = "api"
    /\ \E prices \in PriceMaps, now \in ApiTimes :
           /\ now >= clock
           /\ clock' = now
           /\ portfolio' = update_prices(portfolio, prices, now)
    /\ UNCHANGED <<trade_history, history_file, notifications, cycle,
                   prices_to_update, positions_to_close, fetch_failed, exit_log,
                   opened, m_pc, notMain>>

\* a call of close_position, for a mint that is open or not
PortfolioClose ==
    /\ m_pc = "api"
    /\ \E token_mint \in Tokens, exit_price \in ApiPrices, now \in ApiTimes :
           /\ now >= clock
           /\ clock' = now
           /\ portfolio' = close_position(portfolio, token_mint, exit_price, now)
    /\ UNCHANGED <<trade_history, history_file, notifications, cycle,
                   prices_to_update, positions_to_close, fetch_failed, exit_log,
                   opened, m_pc, notMain>>

PortfolioNext == PortfolioOpen \/ PortfolioUpdatePrices \/ PortfolioClose

(***************************************************************************)
(* Backtest Engine: backtester.rs, Backtester::run and simulate_trade.     *)
(* Capital and PnL are whole dollars: every parsed entry price divides     *)
(* (exit - entry) * position_size, so the Decimal arithmetic is exact. An  *)
(* f64 of the report is the fraction <<numerator, denominator>> it is      *)
(* computed from. sharpe_ratio and the copied trade list are left out.     *)
(***************************************************************************)

\* longest ledger handed to Backtester::run
MaxLedger == 3

\* a String of the ledger that is no decimal number
NotANumber == <<"text", 0>>

\* BacktestConfig, as far as run reads it
BacktestConfigs == [starting_capital : {0, 100}, position_size : {10, 20}]

\* SerializableClosedTrade of a ledger read from the history file, as far as
\* run reads it: prices the bot wrote with Decimal::to_string, a zero entry
\* price, and a text that is no number
LedgerTrades ==
    [ entry_price : {to_string(100), to_string(0), NotANumber},
      exit_price : {to_string(80), to_string(100), to_string(110), NotANumber},
      pnl : {to_string(3)},
      hold_time_minutes : {30} ]

\* Decimal::from_str_exact: None for Err
from_str_exact(str) == IF str[1] = "string" THEN Some(str[2]) ELSE None

\* Result<T> of run and simulate_trade; `Panicked` is the unwinding of a
\* Decimal division by zero
Returned(value) == [kind |-> "Ok", value |-> Some(value)]
Failed == [kind |-> "Err", value |-> None]
Panicked == [kind |-> "panic", value |-> None]

\* simulate_trade that takes the PnL recorded in the ledger
ReplayRecordedPnl(trade, position_size) ==
    IF from_str_exact(trade.entry_price) = None THEN Failed
    ELSE IF from_str_exact(trade.exit_price) = None THEN Failed
    ELSE IF Unwrap(from_str_exact(trade.entry_price)) = 0 THEN Panicked
    ELSE LET pnl == Unwrap(from_str_exact(trade.pnl)) IN
         Returned([ entry_price |-> Unwrap(from_str_exact(trade.entry_price)),
                    exit_price |-> Unwrap(from_str_exact(trade.exit_price)),
                    pnl |-> pnl, hold_time_minutes |-> trade.hold_time_minutes,
                    is_win |-> pnl > 0 ])

\* Backtester::simulate_trade with self.config.position_size
simulate_trade(trade, position_size) ==
    IF from_str_exact(trade.entry_price) = None THEN Failed
    ELSE IF from_str_exact(trade.exit_price) = None THEN Failed
    ELSE LET entry_price == Unwrap(from_str_exact(trade.entry_price))
             exit_price == Unwrap(from_str_exact(trade.exit_price))
         IN  IF entry_price = 0 THEN Panicked
             ELSE LET pnl == ((exit_price - entry_price) * position_size) \div entry_price
                  IN  Returned([ entry_price |-> entry_price, exit_price |-> exit_price,
                                 pnl |-> pnl,
                                 hold_time_minutes |-> trade.hold_time_minutes,
                                 is_win |-> pnl > 0 ])

\* the locals of run before `for trade in &trade_history.closed_trades`
NewReplay(config) ==
    [ kind |-> "Ok", capital |-> config.starting_capital,
      peak_capital |-> config.starting_capital, max_drawdown |-> <<0, 1>>,
      backtest_trades |-> <<>> ]

\* the iteration measuring the drawdown from the starting capital instead of
\* the peak
ReplayStepFromStart(replay, trade, config) ==
    IF replay.kind # "Ok" THEN replay
    ELSE LET simulated == simulate_trade(trade, config.position_size) IN
         IF simulated.kind # "Ok" THEN [replay EXCEPT !.kind = simulated.kind]
         ELSE LET backtest_trade == Unwrap(simulated.value)
                  capital == replay.capital + backtest_trade.pnl
                  trades_so_far == Append(replay.backtest_trades, backtest_trade)
              IN  IF capital > replay.peak_capital
                  THEN [replay EXCEPT !.capital = capital, !.peak_capital = capital,
                                      !.backtest_trades = trades_so_far]
                  ELSE IF replay.peak_capital = 0
                  THEN [replay EXCEPT !.kind = "panic"]
                  ELSE LET current_drawdown ==
                               << (config.starting_capital - capital) * 100,
                                  config.starting_capital >>
                       IN  [replay EXCEPT
                               !.capital = capital,
                               !.max_drawdown =
                                   IF current_drawdown[1] * @[2] > @[1] * current_drawdown[2]
                                   THEN current_drawdown ELSE @,
                               !.backtest_trades = trades_so_far]

\* One iteration of the loop: `?` returns the Err of simulate_trade, the
\* division by a zero peak_capital panics.
ReplayStep(replay, trade, config) ==
    IF replay.kind # "Ok" THEN replay
    ELSE LET simulated == simulate_trade(trade, config.position_size) IN
         IF simulated.kind # "Ok" THEN [replay EXCEPT !.kind = simulated.kind]
         ELSE LET backtest_trade == Unwrap(simulated.value)
                  capital == replay.capital + backtest_trade.pnl
                  trades_so_far == Append(replay.backtest_trades, backtest_trade)
              IN  IF capital > replay.peak_capital
                  THEN [replay EXCEPT !.capital = capital, !.peak_capital = capital,
                                      !.backtest_trades = trades_so_far]
                  ELSE IF replay.peak_capital = 0
                  THEN [replay EXCEPT !.kind = "panic"]
                  ELSE LET current_drawdown ==
                               << (replay.peak_capital - capital) * 100,
                                  replay.peak_capital >>
                       IN  [replay EXCEPT
                               !.capital = capital,
                               !.max_drawdown =
                                   IF current_drawdown[1] * @[2] > @[1] * current_drawdown[2]
                                   THEN current_drawdown ELSE @,
                               !.backtest_trades = trades_so_far]

RECURSIVE ReplayLoop(_, _, _)
ReplayLoop(ledger, n, config) ==
    IF n = 0 THEN NewReplay(config)
    ELSE ReplayStep(ReplayLoop(ledger, n - 1, config), ledger[n], config)

\* the sum, the largest and the smallest of a sequence of Decimals
RECURSIVE SumPnl(_, _)
SumPnl(ts, n) == IF n = 0 THEN 0 ELSE SumPnl(ts, n - 1) + ts[n].pnl

\* backtest_trades.iter().filter(..).collect()
Filter(ts, wins) == SelectSeq(ts, LAMBDA t : t.is_win = wins)

\* .map(|t| t.pnl).max().unwrap_or(Decimal::ZERO) and .min()
MaxPnl(ts) ==
    IF ts = <<>> THEN 0
    ELSE CHOOSE x \in {ts[i].pnl : i \in 1..Len(ts)} :
             \A i \in 1..Len(ts) : ts[i].pnl <= x

MinPnl(ts) ==
    IF ts = <<>> THEN 0
    ELSE CHOOSE x \in {ts[i].pnl : i \in 1..Len(ts)} :
             \A i \in 1..Len(ts) : ts[i].pnl >= x

\* the BacktestResults that run builds after the loop
Report(replay, config) ==
    LET backtest_trades == replay.backtest_trades
        total_pnl == replay.capital - config.starting_capital
        winning_trades == Filter(backtest_trades, TRUE)
        losing_trades == Filter(backtest_trades, FALSE)
        gross_profit == SumPnl(winning_trades, Len(winning_trades))
        gross_loss == SumPnl(losing_trades, Len(losing_trades))
    IN  [ starting_capital |-> config.starting_capital,
          ending_capital |-> replay.capital,
          total_pnl |-> total_pnl,
          roi_pct |-> IF config.starting_capital > 0
                      THEN <<total_pnl * 100, config.starting_capital>>
                      ELSE <<0, 1>>,
          total_trades |-> Len(backtest_trades),
          winning_trades |-> Len(winning_trades),
          losing_trades |-> Len(losing_trades),
          win_rate_pct |-> IF backtest_trades # <<>>
                           THEN <<Len(winning_trades) * 100, Len(backtest_trades)>>
                           ELSE <<0, 1>>,
          avg_win |-> IF winning_trades # <<>>
                      THEN <<gross_profit, Len(winning_trades)>> ELSE <<0, 1>>,
          avg_loss |-> IF losing_trades # <<>>
                       THEN <<gross_loss, Len(losing_trades)>> ELSE <<0, 1>>,
          biggest_win |-> MaxPnl(winning_trades),
          biggest_loss |-> MinPnl(losing_trades),
          max_drawdown_pct |-> replay.max_drawdown,
          profit_factor |-> IF gross_loss < 0
                            THEN <<gross_profit, Abs(gross_loss)>> ELSE <<0, 1>>,
          avg_hold_time_minutes |->
              IF backtest_trades # <<>>
              THEN SumTo([i \in 1..Len(backtest_trades) |->
                             backtest_trades[i].hold_time_minutes],
                         Len(backtest_trades)) \div Len(backtest_trades)
              ELSE 0 ]

\* Backtester::run(trade_history)
run(config, ledger) ==
    IF ledger = <<>> THEN Failed
    ELSE LET replay == ReplayLoop(ledger, Len(ledger), config) IN
         IF replay.kind = "Ok" THEN Returned(Report(replay, config))
         ELSE [kind |-> replay.kind, value |-> None]

BacktestStart ==
    /\ bt_config \in {Some(c) : c \in BacktestConfigs}
    /\ \E n \in 0..MaxLedger : bt_ledger \in [1..n -> LedgerTrades]
    /\ bt_result = None
    /\ bt_pc = "call"

BacktestIdle ==
    /\ bt_config = None
    /\ bt_ledger = <<>>
    /\ bt_result = None
    /\ bt_pc = "idle"

\* one call of Backtester::run
BacktestRun ==
    /\ bt_pc = "call"
    /\ bt_result' = Some(run(Unwrap(bt_config), bt_ledger))
    /\ bt_pc' = "done"
    /\ UNCHANGED <<bt_config, bt_ledger, notBacktest>>

BacktestNext == BacktestRun

(***************************************************************************)
(* Analysis phase of the enhanced main loop (enhanced_main.rs, run).       *)
(* Time is in seconds. A trade is reduced to its timestamp and amount_in,  *)
(* the fields the time windows read; the smart money score of a history is *)
(* drawn with the history.                                                 *)
(***************************************************************************)

\* cycles of the loop that are explored
MaxAnalysisCycles == 2

\* the wallets read from the wallet file, in file order
TrackedWallets == <<"w1", "w2">>

Day == 24 * 3600
Week == 7 * 24 * 3600

\* the pause after each wallet, in seconds
WalletPause == 2

\* ANALYSIS_INTERVAL_SECONDS, the default
AnalysisInterval == 300

\* MIN_SMART_MONEY_SCORE, the default 0.8, in thousandths
MinSmartScore == 800

\* Utc::now() when the first cycle starts
AnalysisStartTime == Week

\* timestamps of the trades a wallet may have made
AnalysisTimes == {0, Week - Day}

AnalysisTrade(timestamp) == [timestamp |-> timestamp, amount_in |-> 1]

\* the non-empty histories get_wallet_trades may return
AnalysisHistories ==
    { <<AnalysisTrade(0)>>, <<AnalysisTrade(Week - Day)>>,
      <<AnalysisTrade(0), AnalysisTrade(Week - Day)>> }

\* HashMap::insert
MapInsert(map, key, value) ==
    [k \in DOMAIN map \cup {key} |-> IF k = key THEN value ELSE map[k]]

EmptyMap == <<>>

RECURSIVE WindowLoop(_, _, _)
WindowLoop(ts, cutoff, n) ==
    IF n = 0 THEN [count |-> 0, volume |-> 0]
    ELSE LET rest == WindowLoop(ts, cutoff, n - 1)
         IN  IF ts[n].timestamp >= cutoff
             THEN [count |-> rest.count + 1, volume |-> rest.volume + ts[n].amount_in]
             ELSE rest

calculate_time_window_stats(ts, now, seconds) ==
    WindowLoop(ts, now - seconds, Len(ts))

\* the window part of calculate_metrics: one now for both windows of a wallet
WindowMetrics(ts, now) ==
    LET day == calculate_time_window_stats(ts, now, Day)
        week == calculate_time_window_stats(ts, now, Week)
    IN  [trades_last_24h |-> day.count, volume_24h |-> day.volume,
         trades_last_7d |-> week.count, volume_7d |-> week.volume]

build_wallet_analysis(wallet, ts, score, now) ==
    [wallet |-> wallet,
     metrics |-> WindowMetrics(ts, now),
     smart_money_score |-> score,
     analyzed_at |-> now]

AnalysisStart ==
    /\ an_cycle = 1
    /\ an_clock = AnalysisStartTime
    /\ an_idx = 1
    /\ wallet_analyses = EmptyMap
    /\ all_trades = EmptyMap
    /\ detector_input = None
    /\ window_now = EmptyMap
    /\ passed = {}
    /\ an_pc = "analyze"

AnalysisIdle ==
    /\ an_cycle = 0
    /\ an_clock = 0
    /\ an_idx = 0
    /\ wallet_analyses = EmptyMap
    /\ all_trades = EmptyMap
    /\ detector_input = None
    /\ window_now = EmptyMap
    /\ passed = {}
    /\ an_pc = "idle"

\* analyze_wallet returns Ok: the history is not empty
AnalyzeOk ==
    /\ an_pc = "analyze"
    /\ an_idx <= Len(TrackedWallets)
    /\ \E ts \in AnalysisHistories, score \in Scores :
        LET wallet == TrackedWallets[an_idx]
            analysis == build_wallet_analysis(wallet, ts, score, an_clock)
        IN  /\ window_now' = MapInsert(window_now, wallet, an_clock)
            /\ IF analysis.smart_money_score >= MinSmartScore
               THEN /\ wallet_analyses' = MapInsert(wallet_analyses, wallet, analysis)
                    /\ all_trades' = MapInsert(all_trades, wallet, ts)
                    /\ passed' = passed \cup {wallet}
               ELSE UNCHANGED <<wallet_analyses, all_trades, passed>>
    /\ an_clock' = an_clock + WalletPause
    /\ an_idx' = an_idx + 1
    /\ UNCHANGED <<an_cycle, detector_input, an_pc, notAnalysis>>

\* analyze_wallet returns Err: the fetch failed or no trades were found
AnalyzeErr ==
    /\ an_pc = "analyze"
    /\ an_idx <= Len(TrackedWallets)
    /\ an_clock' = an_clock + WalletPause
    /\ an_idx' = an_idx + 1
    /\ UNCHANGED <<an_cycle, wallet_analyses, all_trades, detector_input, window_now,
                   passed, an_pc, notAnalysis>>

\* the wallet loop is over and wallet_analyses is not empty
AnalysisDetect ==
    /\ an_pc = "analyze"
    /\ an_idx > Len(TrackedWallets)
    /\ wallet_analyses # EmptyMap
    /\ detector_input' = Some([wallet_analyses |-> wallet_analyses,
                               all_trades |-> all_trades])
    /\ an_pc' = "sleep"
    /\ UNCHANGED <<an_cycle, an_clock, an_idx, wallet_analyses, all_trades, window_now,
                   passed, notAnalysis>>

\* the wallet loop is over and wallet_analyses is empty
AnalysisNoWallets ==
    /\ an_pc = "analyze"
    /\ an_idx > Len(TrackedWallets)
    /\ wallet_analyses = EmptyMap
    /\ an_pc' = "sleep"
    /\ UNCHANGED <<an_cycle, an_clock, an_idx, wallet_analyses, all_trades,
                   detector_input, window_now, passed, notAnalysis>>

\* the sleep at the end of the cycle and the start of the next cycle
AnalysisSleep ==
    /\ an_pc = "sleep"
    /\ an_cycle < MaxAnalysisCycles
    /\ an_cycle' = an_cycle + 1
    /\ an_clock' = an_clock + AnalysisInterval
    /\ an_idx' = 1
    /\ detector_input' = None
    /\ window_now' = EmptyMap
    /\ passed' = {}
    /\ an_pc' = "analyze"
    /\ UNCHANGED <<wallet_analyses, all_trades, notAnalysis>>

AnalysisNext ==
    \/ AnalyzeOk
    \/ AnalyzeErr
    \/ AnalysisDetect
    \/ AnalysisNoWallets
    \/ AnalysisSleep

(***************************************************************************)
(* Exit rules (position_manager.rs): should_exit_position called on a      *)
(* position as update_prices left it and on a freshly fetched token.       *)
(***************************************************************************)

\* prices at which the position was last refreshed: pnl -5, 4, 5 and 40 percent
ExitLastPrices == {95, 104, 105, 140}

\* minutes between entry_time and the last refresh
ExitHoldTimes == {0, 1440, 1470, 1500, 1510}

\* the positions handed to should_exit_position: opened at time 0 and
\* refreshed by update_prices at a later time
ExitPositions ==
    { RefreshPosition(NewPosition(token_mint, price, mc, bracket, 0), <<last, mc>>, now) :
        token_mint \in {"t1"}, price \in EntryPrices, mc \in MarketCaps,
        bracket \in Brackets, last \in ExitLastPrices, now \in ExitHoldTimes }

ExitStart ==
    /\ ex_position \in {Some(position) : position \in ExitPositions}
    /\ ex_market \in {Some(market) : market \in MarketData}
    /\ ex_result = None
    /\ ex_pc = "call"

ExitIdle ==
    /\ ex_position = None
    /\ ex_market = None
    /\ ex_result = None
    /\ ex_pc = "idle"

\* one call of should_exit_position
ExitEvaluate ==
    /\ ex_pc = "call"
    /\ ex_result' = Some(ExitRule(Unwrap(ex_position), Unwrap(ex_market)))
    /\ ex_pc' = "done"
    /\ UNCHANGED <<ex_position, ex_market, notExit>>

ExitNext == ExitEvaluate

(***************************************************************************)
(* Entry gate of the enhanced main loop (enhanced_main.rs 298-378) with    *)
(* ScamDetector::check_token_security (scam_check.rs). Confidences are in  *)
(* thousandths, rugcheck scores are the u32 of the response, time is in    *)
(* seconds. Of SecurityInfo only is_scam and is_bundle are kept, of the    *)
(* OpenPosition the fields that do not depend on the clock.                *)
(***************************************************************************)

\* cache_ttl_seconds of ScamDetector::new
CacheTtlSeconds == 300

\* Utc::now().timestamp() at the call of check_token_security
EntryNow == 2 * CacheTtlSeconds

\* signal.confidence at and above the 0.85 gate
EntryConfidences == {850, 900}

\* market_data of the fetched token: patterns 1 (StrongBuy 0.85), 3 (Buy 0.7),
\* 5 (Sell) and the default (Hold)
EntryMarkets ==
    { [ price_usd |-> 100, market_cap |-> 1000, price_change_5m |-> c[1],
        price_change_1h |-> c[2], price_change_24h |-> c[3],
        volume_24h |-> c[4], liquidity_usd |-> 2 ] :
      c \in { <<6, 12, 25, 6>>, <<0, 0, 0, 4>>, <<21, 51, 0, 2>>, <<0, 0, 0, 2>> } }

\* SecurityInfo::default(), derived: both flags false
DefaultSecurityInfo == [is_scam |-> FALSE, is_bundle |-> FALSE]

\* what parse_rugcheck_data reads in a RugCheckResponse: whether a risk has
\* level danger or critical, whether a risk names a bundle, the share of the
\* top ten holders in percent, the score
RugCheckResponses ==
    [ danger : BOOLEAN, bundle : BOOLEAN, top_holders_percentage : {0, 90},
      score : {None, Some(50), Some(5000)} ]

\* ScamDetector::parse_rugcheck_data; rugcheck_score is score / 100.0
parse_rugcheck_data(data) ==
    [ is_scam |-> data.danger \/ (data.score # None /\ Unwrap(data.score) < 30 * 100),
      is_bundle |-> data.bundle \/ data.top_holders_percentage > 80 ]

\* what the HTTP request of check_token_security can end in
HttpOutcomes ==
    { [kind |-> k, data |-> None] : k \in {"transport_error", "status", "parse_error"} }
    \cup { [kind |-> "report", data |-> Some(d)] : d \in RugCheckResponses }

\* the cache entries the detector can hold for the mint: none, or a report
\* stored cache_ttl_seconds ago or one second less
EntryCaches ==
    {None} \cup { Some(<<parse_rugcheck_data(d), timestamp>>) :
                    d \in RugCheckResponses,
                    timestamp \in {EntryNow - CacheTtlSeconds, EntryNow - CacheTtlSeconds + 1} }

\* ScamDetector::check_token_security: the Result, the cache entry it leaves and
\* where the Result came from
check_token_security(cache, now, http) ==
    IF cache # None /\ now - Unwrap(cache)[2] < CacheTtlSeconds
    THEN [result |-> Ok(Unwrap(cache)[1]), cache |-> cache, lookup |-> "cache"]
    ELSE IF http.kind = "transport_error"
    THEN [result |-> Err, cache |-> cache, lookup |-> "transport_error"]
    ELSE IF http.kind = "status"
    THEN [result |-> Ok(DefaultSecurityInfo), cache |-> cache, lookup |-> "status"]
    ELSE IF http.kind = "parse_error"
    THEN [result |-> Err, cache |-> cache, lookup |-> "parse_error"]
    ELSE LET security_info == parse_rugcheck_data(Unwrap(http.data))
         IN  [result |-> Ok(security_info), cache |-> Some(<<security_info, now>>),
              lookup |-> "report"]

\* enhanced_main.rs 305-374: what the Ok arm of get_token_data hands to
\* open_position, None when it opens nothing
EntryDecision(signal, token, security, trading_enabled) ==
    IF ~security.ok THEN None
    ELSE IF Unwrap(security.value).is_scam THEN None
    ELSE IF Unwrap(security.value).is_bundle THEN None
    ELSE LET chart_signal == analyze_entry_exit(token)
             combined_confidence == signal.confidence + chart_signal.confidence
         IN  IF chart_signal.action \in {"StrongBuy", "Buy"}
                /\ combined_confidence > 2 * 750
                /\ ~trading_enabled
             THEN Some([ token_mint |-> signal.token_mint,
                         entry_price |-> token.price_usd,
                         entry_mc |-> token.market_cap,
                         amount |-> StartingCapital,
                         take_profit |-> chart_signal.suggested_exit ])
             ELSE None

EntryStart ==
    /\ en_signal \in {Some([token_mint |-> "t1", confidence |-> c]) : c \in EntryConfidences}
    /\ en_trading \in BOOLEAN
    /\ en_cache \in EntryCaches
    /\ en_token = None
    /\ en_security = None
    /\ en_lookup = "none"
    /\ en_opened = None
    /\ en_pc = "signal"

EntryIdle ==
    /\ en_signal = None
    /\ en_trading = FALSE
    /\ en_cache = None
    /\ en_token = None
    /\ en_security = None
    /\ en_lookup = "none"
    /\ en_opened = None
    /\ en_pc = "idle"

\* signal.confidence > 0.85 is false: the signal is only announced
EntrySkip ==
    /\ en_pc = "signal"
    /\ ~(Unwrap(en_signal).confidence > 850)
    /\ en_pc' = "done"
    /\ UNCHANGED <<en_signal, en_trading, en_cache, en_token, en_security, en_lookup,
                   en_opened, notEntry>>

\* get_token_data returns Ok(token)
EntryFetchOk ==
    /\ en_pc = "signal"
    /\ Unwrap(en_signal).confidence > 850
    /\ \E token \in EntryMarkets : en_token' = Some(token)
    /\ en_pc' = "security"
    /\ UNCHANGED <<en_signal, en_trading, en_cache, en_security, en_lookup, en_opened,
                   notEntry>>

\* get_token_data returns Err: an error! line
EntryFetchErr ==
    /\ en_pc = "signal"
    /\ Unwrap(en_signal).confidence > 850
    /\ en_pc' = "done"
    /\ UNCHANGED <<en_signal, en_trading, en_cache, en_token, en_security, en_lookup,
                   en_opened, notEntry>>

\* the call of check_token_security
EntrySecurity ==
    /\ en_pc = "security"
    /\ \E http \in HttpOutcomes :
        LET checked == check_token_security(en_cache, EntryNow, http)
        IN  /\ en_security' = Some(checked.result)
            /\ en_cache' = checked.cache
            /\ en_lookup' = checked.lookup
    /\ en_pc' = "decide"
    /\ UNCHANGED <<en_signal, en_trading, en_token, en_opened, notEntry>>

\* the match on the Result: the flags, the chart analysis, the combined
\* confidence and open_position
EntryDecide ==
    /\ en_pc = "decide"
    /\ en_opened' = EntryDecision(Unwrap(en_signal), Unwrap(en_token),
                                  Unwrap(en_security), en_trading)
    /\ en_pc' = "done"
    /\ UNCHANGED <<en_signal, en_trading, en_cache, en_token, en_security, en_lookup,
                   notEntry>>

EntryNext ==
    \/ EntrySkip
    \/ EntryFetchOk
    \/ EntryFetchErr
    \/ EntrySecurity
    \/ EntryDecide

(***************************************************************************)
(* RPC client with fallback (rpc.rs). Endpoint 0 is the primary, endpoint  *)
(* i the i-th fallback. Calls do not overlap.                              *)
(***************************************************************************)

\* most fallback endpoints configured
MaxFallbacks == 3

\* calls of execute_with_fallback that are explored
MaxCalls == 3

\* get_client: the endpoint that index selects
get_client(index, n) ==
    IF index = 0 THEN 0
    ELSE IF index - 1 < n THEN index
    ELSE 0

\* switch_to_fallback that does not wrap around to the primary
SwitchWithoutWrap(index, n) == index + 1

\* switch_to_fallback: the new current_index
switch_to_fallback(index, n) == (index + 1) % (n + 1)

RpcStart ==
    /\ fallbacks \in 0..MaxFallbacks
    /\ current_index = 0
    /\ attempts = 0
    /\ rpc_tried = <<>>
    /\ rpc_result = None
    /\ rpc_calls = 1
    /\ rpc_pc = "loop"

RpcIdle ==
    /\ fallbacks = 0
    /\ current_index = 0
    /\ attempts = 0
    /\ rpc_tried = <<>>
    /\ rpc_result = None
    /\ rpc_calls = 0
    /\ rpc_pc = "idle"

\* operation(client) returns Ok: the call returns the result
RpcAttemptOk ==
    /\ rpc_pc = "loop"
    /\ rpc_tried' = Append(rpc_tried,
                           [endpoint |-> get_client(current_index, fallbacks), ok |-> TRUE])
    /\ rpc_result' = Some("Ok")
    /\ rpc_pc' = "returned"
    /\ UNCHANGED <<fallbacks, current_index, attempts, rpc_calls, notRpc>>

\* operation(client) returns Err: the call gives up after max_attempts, or
\* switches the endpoint and goes round the loop
RpcAttemptErr ==
    /\ rpc_pc = "loop"
    /\ rpc_tried' = Append(rpc_tried,
                           [endpoint |-> get_client(current_index, fallbacks), ok |-> FALSE])
    /\ attempts' = attempts + 1
    /\ LET max_attempts == fallbacks + 1
       IN  IF attempts' >= max_attempts
           THEN /\ rpc_result' = Some("RpcError")
                /\ rpc_pc' = "returned"
                /\ UNCHANGED current_index
           ELSE /\ current_index' = switch_to_fallback(current_index, fallbacks)
                /\ UNCHANGED <<rpc_result, rpc_pc>>
    /\ UNCHANGED <<fallbacks, rpc_calls, notRpc>>

\* the next call of execute_with_fallback on the same client
RpcCall ==
    /\ rpc_pc = "returned"
    /\ rpc_calls < MaxCalls
    /\ attempts' = 0
    /\ rpc_tried' = <<>>
    /\ rpc_result' = None
    /\ rpc_calls' = rpc_calls + 1
    /\ rpc_pc' = "loop"
    /\ UNCHANGED <<fallbacks, current_index, notRpc>>

RpcNext ==
    \/ RpcAttemptOk
    \/ RpcAttemptErr
    \/ RpcCall

GroupIdle ==
    /\ trades = <<>>
    /\ sorted_trades = <<>>
    /\ idx = 0
    /\ open_positions = EmptyOpenPositions
    /\ positions = <<>>
    /\ g_pc = "idle"

GroupInit == GroupStart /\ AlphaIdle /\ ScoreIdle /\ MainIdle /\ ChartIdle /\ MetricsIdle
    /\ BacktestIdle
    /\ AnalysisIdle
    /\ ExitIdle
    /\ EntryIdle
    /\ RpcIdle

SpecGroup == GroupInit /\ [][GroupNext]_vars

AlphaInit == AlphaStart /\ GroupIdle /\ ScoreIdle /\ MainIdle /\ ChartIdle /\ MetricsIdle
    /\ BacktestIdle
    /\ AnalysisIdle
    /\ ExitIdle
    /\ EntryIdle
    /\ RpcIdle

SpecAlpha == AlphaInit /\ [][AlphaNext]_vars

ScoreInit == ScoreStart /\ GroupIdle /\ AlphaIdle /\ MainIdle /\ ChartIdle /\ MetricsIdle
    /\ BacktestIdle
    /\ AnalysisIdle
    /\ ExitIdle
    /\ EntryIdle
    /\ RpcIdle

SpecScore == ScoreInit /\ [][ScoreNext]_vars

MainInit == MainStart /\ GroupIdle /\ AlphaIdle /\ ScoreIdle /\ ChartIdle /\ MetricsIdle
    /\ BacktestIdle
    /\ AnalysisIdle
    /\ ExitIdle
    /\ EntryIdle
    /\ RpcIdle

SpecMain == MainInit /\ [][MainNext]_vars

PortfolioInit == PortfolioStart /\ GroupIdle /\ AlphaIdle /\ ScoreIdle /\ ChartIdle /\ MetricsIdle
    /\ BacktestIdle
    /\ AnalysisIdle
    /\ ExitIdle
    /\ EntryIdle
    /\ RpcIdle

SpecPortfolio == PortfolioInit /\ [][PortfolioNext]_vars

ChartInit == ChartStart /\ GroupIdle /\ AlphaIdle /\ ScoreIdle /\ MainIdle /\ MetricsIdle
    /\ BacktestIdle
    /\ AnalysisIdle
    /\ ExitIdle
    /\ EntryIdle
    /\ RpcIdle

SpecChart == ChartInit /\ [][ChartNext]_vars

MetricsInit ==
    MetricsStart /\ GroupIdle /\ AlphaIdle /\ ScoreIdle /\ MainIdle /\ ChartIdle
    /\ BacktestIdle
    /\ AnalysisIdle
    /\ ExitIdle
    /\ EntryIdle
    /\ RpcIdle

SpecMetrics == MetricsInit /\ [][MetricsNext]_vars

BacktestInit ==
    BacktestStart /\ GroupIdle /\ AlphaIdle /\ ScoreIdle /\ MainIdle /\ ChartIdle
    /\ MetricsIdle
    /\ AnalysisIdle
    /\ ExitIdle
    /\ EntryIdle
    /\ RpcIdle

SpecBacktest == BacktestInit /\ [][BacktestNext]_vars

AnalysisInit ==
    AnalysisStart
    /\ AlphaIdle
    /\ ScoreIdle
    /\ MetricsIdle
    /\ ChartIdle
    /\ MainIdle
    /\ BacktestIdle
    /\ GroupIdle
    /\ ExitIdle
    /\ EntryIdle
    /\ RpcIdle

SpecAnalysis == AnalysisInit /\ [][AnalysisNext]_vars

ExitInit ==
    ExitStart
    /\ AlphaIdle
    /\ ScoreIdle
    /\ MetricsIdle
    /\ ChartIdle
    /\ MainIdle
    /\ BacktestIdle
    /\ AnalysisIdle
    /\ GroupIdle
    /\ EntryIdle
    /\ RpcIdle

SpecExit == ExitInit /\ [][ExitNext]_vars

EntryInit ==
    EntryStart
    /\ AlphaIdle
    /\ ScoreIdle
    /\ MetricsIdle
    /\ ChartIdle
    /\ MainIdle
    /\ BacktestIdle
    /\ AnalysisIdle
    /\ ExitIdle
    /\ GroupIdle
    /\ RpcIdle

SpecEntry == EntryInit /\ [][EntryNext]_vars

RpcInit ==
    RpcStart
    /\ AlphaIdle
    /\ ScoreIdle
    /\ MetricsIdle
    /\ ChartIdle
    /\ MainIdle
    /\ BacktestIdle
    /\ AnalysisIdle
    /\ ExitIdle
    /\ EntryIdle
    /\ GroupIdle

SpecRpc == RpcInit /\ [][RpcNext]_vars

(***************************************************************************)
(* Claims about the Position Reconstructor (checked under SpecGroup)       *)
(***************************************************************************)

IsClosed(p) == p.status = "Closed"

\* The element the loop is about to process is a Sell.
AtSell ==
    /\ g_pc = "loop"
    /\ idx <= Len(sorted_trades)
    /\ sorted_trades[idx].side = "Sell"

\* The pending Buys of the (wallet, asset) key, oldest first.
PendingOfKey(open, w, k) == SelectSeq(open[k], LAMBDA b : b.wallet = w)

\* C2: Buys and Sells are matched per (wallet, asset): the entry event and the
\* exit event of every Closed position have the same wallet and the same asset.
C2_MatchedPerWalletAndAsset ==
    \A i \in 1..Len(positions) :
        IsClosed(positions[i]) =>
            /\ positions[i].entry_trade.wallet = Unwrap(positions[i].exit_trade).wallet
            /\ positions[i].entry_trade.token_mint = Unwrap(positions[i].exit_trade).token_mint

\* C3: every Closed position has entry.timestamp <= exit.timestamp and
\* pnl = exit.amount_out - entry.amount_in, whatever the order of the input.
C3_ClosedOrderAndPnl ==
    \A i \in 1..Len(positions) :
        IsClosed(positions[i]) =>
            /\ positions[i].entry_trade.timestamp <= Unwrap(positions[i].exit_trade).timestamp
            /\ positions[i].pnl =
                 Some(Unwrap(positions[i].exit_trade).amount_out
                      - positions[i].entry_trade.amount_in)

\* C3's case: the input lists a Sell before the earlier Buy it ends up closing,
\* and the position has a non-zero PnL.
C3_Witness ==
    /\ g_pc = "done"
    /\ \E i \in 1..Len(positions) : \E a, b \in 1..Len(trades) :
         /\ IsClosed(positions[i])
         /\ a < b
         /\ Some(trades[a]) = positions[i].exit_trade
         /\ trades[b] = positions[i].entry_trade
         /\ trades[b].timestamp < trades[a].timestamp
         /\ positions[i].pnl # Some(0)

\* C4: a Sell closes the most recently pushed pending Buy of its (wallet, asset)
\* key: exactly that Buy becomes the entry of a new Closed position and every
\* other pending Buy, of this key and of the others, stays pending.
C4_LIFOPerKey ==
    [][ ( /\ AtSell
          /\ idx' = idx + 1
          /\ PendingOfKey(open_positions, sorted_trades[idx].wallet,
                          sorted_trades[idx].token_mint) # <<>> )
        => LET sell == sorted_trades[idx]
               pend == PendingOfKey(open_positions, sell.wallet, sell.token_mint)
           IN /\ positions' = Append(positions, ClosedPosition(pend[Len(pend)], sell))
              /\ \A w \in Wallets, k \in Tokens :
                    PendingOfKey(open_positions', w, k) =
                        IF w = sell.wallet /\ k = sell.token_mint
                        THEN SubSeq(pend, 1, Len(pend) - 1)
                        ELSE PendingOfKey(open_positions, w, k)
      ]_vars

\* C5: a Sell processed while its (wallet, asset) key has no pending Buy emits
\* no position and changes no pending stack.
C5_UnmatchedSellDropped ==
    [][ ( /\ AtSell
          /\ idx' = idx + 1
          /\ PendingOfKey(open_positions, sorted_trades[idx].wallet,
                          sorted_trades[idx].token_mint) = <<>> )
        => /\ positions' = positions
           /\ open_positions' = open_positions
      ]_vars

\* C6: for an input without Sell events every output position is Open (no exit
\* event, no PnL) and there are as many positions as input Buy events.
C6_NoSellAllOpen ==
    ( /\ g_pc = "done"
      /\ \A i \in 1..Len(trades) : trades[i].side = "Buy" )
    => /\ \A i \in 1..Len(positions) :
             /\ positions[i].status = "Open"
             /\ positions[i].exit_trade = None
             /\ positions[i].pnl = None
       /\ Len(positions) = Len(trades)

\* C6's case: several Buys and no Sell, two of the Buys on the same asset.
C6_Witness ==
    /\ g_pc = "done"
    /\ Len(trades) >= 2
    /\ \A i \in 1..Len(trades) : trades[i].side = "Buy"
    /\ trades[1].token_mint = trades[2].token_mint
    /\ Len(positions) = Len(trades)

(***************************************************************************)
(* Claims about the Signal Convergence Detector (checked under SpecAlpha)  *)
(***************************************************************************)

SignalsFor(k) == { i \in 1..Len(ultra_signals) : ultra_signals[i].token_mint = k }

\* C1: an UltraSignal is emitted for an asset exactly when the number of
\* distinct qualifying wallets that bought it inside the window is >= K, and
\* its smart_wallets_count is that distinct count.
C1_DistinctWalletCount ==
    a_pc = "done" =>
        \A k \in Tokens :
            /\ SignalsFor(k) # {} <=> Cardinality(buyers[k]) >= convergence_threshold
            /\ \A i \in SignalsFor(k) :
                   ultra_signals[i].smart_wallets_count = Cardinality(buyers[k])

\* the precondition of C14 for asset x: its n >= K distinct qualifying wallets
\* bought it once each, and no other asset has K distinct qualifying buyers
ConvergesAlone(x) ==
    /\ Cardinality(buyers[x]) >= convergence_threshold
    /\ qualifying[x].count = Cardinality(buyers[x])
    /\ \A y \in Tokens \ {x} : Cardinality(buyers[y]) < convergence_threshold

\* C14: when exactly n >= K distinct qualifying wallets bought asset X once each
\* inside the window and no other asset reaches K buyers, the output is exactly
\* one UltraSignal, for X, with smart_wallets_count = n and confidence
\* 0.8 + min(n x 0.05, 0.2); every emitted confidence lies in [0.8, 1.0].
C14_SingleSignalForConvergence ==
    a_pc = "done" =>
        /\ \A i \in 1..Len(ultra_signals) :
               ultra_signals[i].confidence >= 800 /\ ultra_signals[i].confidence <= 1000
        /\ \A x \in Tokens :
               ConvergesAlone(x) =>
                   LET n == Cardinality(buyers[x]) IN
                   /\ Len(ultra_signals) = 1
                   /\ ultra_signals[1].token_mint = x
                   /\ ultra_signals[1].smart_wallets_count = n
                   /\ ultra_signals[1].confidence =
                          800 + (IF n * 50 < 200 THEN n * 50 ELSE 200)

\* how often wallet w stands in the smart_wallets_bought lists
Contributions(w) ==
    LET Hits(k) == IF token_activity[k] = None THEN {}
                   ELSE { i \in 1..Len(Unwrap(token_activity[k]).smart_wallets_bought) :
                            Unwrap(token_activity[k]).smart_wallets_bought[i] = w }
    IN  Cardinality(UNION { {<<k, i>> : i \in Hits(k)} : k \in Tokens })

C16_OrderIndependentOfIteration ==
    a_pc = "done" =>
        \A order \in TokenOrders :
            ultra_signals =
                SortByConfidence(CollectSignals(token_activity, order, Len(order),
                                                convergence_threshold))

(***************************************************************************)
(* Claims about the Scorer (checked under SpecScore)                       *)
(***************************************************************************)

\* C7: for every WalletMetrics value, in range or not, the smart-money score
\* and the risk score both lie in [0,1].
C7_ScoresInUnitInterval ==
    s_pc = "done" =>
        /\ 0 <= Unwrap(smart_money_score) /\ Unwrap(smart_money_score) <= 1000
        /\ 0 <= Unwrap(risk_score) /\ Unwrap(risk_score) <= 1000

(***************************************************************************)
(* Claims about the portfolio and the main loop (checked under SpecMain)   *)
(***************************************************************************)

\* the step of check_and_update_positions that fetches, and the one that applies
FetchStep == m_pc = "signals" /\ m_pc' = "check"
ApplyStep == m_pc = "check" /\ m_pc' = "persist"

\* the price fetched for k in this cycle
FetchedPrice(k) == Unwrap(prices_to_update[k])[1]

\* the apply step removes k from the open set and appends a ClosedTrade for it
\* at the given exit price
ClosedInStep(k, price) ==
    /\ portfolio'.positions[k] = None
    /\ \E i \in (Len(portfolio.closed_trades) + 1)..Len(portfolio'.closed_trades) :
           /\ portfolio'.closed_trades[i].token_mint = k
           /\ portfolio'.closed_trades[i].exit_price = price

\* the apply step appends no ClosedTrade for k
NotClosedInStep(k) ==
    \A i \in (Len(portfolio.closed_trades) + 1)..Len(portfolio'.closed_trades) :
        portfolio'.closed_trades[i].token_mint # k

\* k is open and the price fetched for it is at or below its stop_loss and at
\* or above its take_profit
BothBreached(k) ==
    /\ portfolio.positions[k] # None
    /\ prices_to_update[k] # None
    /\ FetchedPrice(k) <= Unwrap(portfolio.positions[k]).stop_loss
    /\ FetchedPrice(k) >= Unwrap(portfolio.positions[k]).take_profit

\* C8: a position whose fetched price is both <= stop_loss and >= take_profit
\* is exited in that cycle, and the rule logged for the exit is stop-loss.
C8_StopLossPrecedence ==
    [][ApplyStep =>
           \A k \in Tokens :
               BothBreached(k) =>
                   /\ exit_log[k] = Some("stop_loss")
                   /\ ClosedInStep(k, FetchedPrice(k))]_vars

C8_Witness ==
    /\ m_pc = "check"
    /\ \E k \in Tokens :
           /\ BothBreached(k)
           /\ \E i \in 1..Len(positions_to_close) : positions_to_close[i][1] = k

\* C9: every cycle fetches every open position; a position whose fetch failed
\* stays open with all its fields unchanged and is not closed in that cycle,
\* while every other open position is closed if an exit rule fired and is
\* otherwise refreshed from the price fetched for it.
C9_FetchFailureSkipsOnlyThatPosition ==
    [][/\ FetchStep =>
              fetch_failed' \cup { k \in Tokens : prices_to_update'[k] # None }
                  = get_position_mints(portfolio)
       /\ ApplyStep =>
              \A k \in get_position_mints(portfolio) :
                  IF k \in fetch_failed
                  THEN /\ portfolio'.positions[k] = portfolio.positions[k]
                       /\ NotClosedInStep(k)
                  ELSE IF exit_log[k] # None
                  THEN ClosedInStep(k, FetchedPrice(k))
                  ELSE /\ portfolio'.positions[k] # None
                       /\ NotClosedInStep(k)
                       /\ LET old == Unwrap(portfolio.positions[k])
                              new == Unwrap(portfolio'.positions[k])
                          IN  /\ new.current_price = FetchedPrice(k)
                              /\ new.unrealized_pnl * old.entry_price
                                     = (FetchedPrice(k) - old.entry_price) * old.amount
                              /\ new.unrealized_pnl_pct * old.entry_price
                                     = (FetchedPrice(k) - old.entry_price) * 100
                              /\ new.hold_time_minutes = clock - old.entry_time]_vars

C9_Witness ==
    /\ m_pc = "persist"
    /\ \E k, j \in Tokens :
           /\ k \in fetch_failed
           /\ portfolio.positions[k] # None
           /\ j \notin fetch_failed
           /\ exit_log[j] # None
           /\ portfolio.positions[j] = None

\* the in-memory TradeHistory holds the record of the trade
InLedger(trade) ==
    \E j \in 1..Len(trade_history.closed_trades) :
        trade_history.closed_trades[j] = SerializableClosedTrade(trade)

\* C10: at the end of every cycle every ClosedTrade that close_position has
\* produced is in the TradeHistory ledger, also when several positions were
\* closed in one cycle.
C10_EveryClosedTradeInLedger ==
    m_pc = "sleep" =>
        \A i \in 1..Len(portfolio.closed_trades) : InLedger(portfolio.closed_trades[i])

(***************************************************************************)
(* Claims about PortfolioMonitor (checked under SpecPortfolio)             *)
(***************************************************************************)

\* the position stored for k is the one a caller built at `now`, untouched
FreshPosition(pos, k, now) ==
    \E price \in EntryPrices, mc \in MarketCaps, bracket \in Brackets :
        pos = Some(NewPosition(k, price, mc, bracket, now))

\* C11: the open set holds at most one position per asset, stored under its own
\* asset, and every open_position call leaves under the asset exactly the
\* position it was handed (nothing of an earlier position of that asset
\* survives), changing no other position, no ClosedTrade and no statistic.
C11_OnePositionPerAssetReplaced ==
    [][/\ \A k \in Tokens :
              portfolio'.positions[k] # None =>
                  Unwrap(portfolio'.positions[k]).token_mint = k
       /\ opened' = opened + 1 =>
              \E k \in Tokens :
                  /\ FreshPosition(portfolio'.positions[k], k, clock')
                  /\ \A j \in Tokens \ {k} :
                         portfolio'.positions[j] = portfolio.positions[j]
                  /\ portfolio'.closed_trades = portfolio.closed_trades
                  /\ portfolio'.daily_stats = portfolio.daily_stats]_vars

\* C11's case: more open_position calls than open positions plus closed trades,
\* so a call has replaced a position that was open, and the asset is still open.
C11_Witness ==
    /\ m_pc = "api"
    /\ get_position_mints(portfolio) # {}
    /\ opened > Cardinality(get_position_mints(portfolio))
                    + Len(portfolio.closed_trades)

(***************************************************************************)
(* Claims about the Chart Analyzer                                         *)
(***************************************************************************)

\* the conditions of rule n of the Chart Analyzer on snapshot m
RuleHolds(n, m) ==
    CASE n = 1 -> /\ m.price_change_5m > 5 /\ m.price_change_1h > 10
                  /\ m.price_change_24h > 20 /\ m.volume_24h > 2 * m.liquidity_usd
      [] n = 2 -> /\ m.price_change_5m < -2 /\ m.price_change_5m > -5
                  /\ m.price_change_24h > 10
      [] n = 3 -> /\ Abs(m.price_change_5m) < 1 /\ Abs(m.price_change_1h) < 2
                  /\ 2 * m.volume_24h > 3 * m.liquidity_usd
      [] n = 4 -> /\ m.price_change_5m > 8 /\ m.price_change_1h > 15
                  /\ m.price_change_24h < 30 /\ m.volume_24h > m.liquidity_usd
      [] n = 5 -> m.price_change_5m > 20 /\ m.price_change_1h > 50
      [] n = 6 -> /\ m.price_change_5m < -5 /\ m.price_change_1h < -10
                  /\ m.price_change_24h < -15
      [] n = 7 -> m.volume_24h > 3 * m.liquidity_usd /\ m.price_change_5m > 3

\* action and confidence (thousandths) of rules 1..7
RuleOutcome ==
    << <<"StrongBuy", 850>>, <<"Buy", 750>>, <<"Buy", 700>>, <<"StrongBuy", 800>>,
       <<"Sell", 800>>, <<"StrongSell", 900>>, <<"Buy", 750>> >>

\* C12: analyze_entry_exit returns the outcome of the lowest-numbered rule whose
\* conditions hold: rule 1 gives StrongBuy 0.85 whatever later rules match, and
\* a snapshot matching rules 4 and 5 gives StrongBuy (rule 4), not Sell.
C12_LowestRuleWins ==
    c_pc = "done" =>
        LET m == Unwrap(chart_market)
            r == Unwrap(chart_result)
        IN  \A n \in 1..7 :
                (RuleHolds(n, m) /\ \A j \in 1..(n - 1) : ~RuleHolds(j, m)) =>
                    /\ r.pattern = n
                    /\ r.action = RuleOutcome[n][1]
                    /\ r.confidence = RuleOutcome[n][2]

\* C12's case: a snapshot matching rules 4 and 5 but not rule 1 was classified
C12_Witness ==
    /\ c_pc = "done"
    /\ RuleHolds(4, Unwrap(chart_market))
    /\ RuleHolds(5, Unwrap(chart_market))
    /\ ~RuleHolds(1, Unwrap(chart_market))
    /\ Unwrap(chart_result).action = "StrongBuy"

\* the Hold signal of the specification for snapshot m: confidence 0.5,
\* suggested entry = price, suggested exit = price x 1.2
IsSpecifiedHold(r, m) ==
    /\ r.action = "Hold"
    /\ r.confidence = 500
    /\ r.suggested_entry = Exactly(m.price_usd)
    /\ r.suggested_exit = [hundredths |-> m.price_usd * 120, excess |-> 0]

\* C13: analyze_entry_exit returns one ChartSignal for every snapshot, and it is
\* Hold with confidence 0.5, suggested entry = price and suggested exit =
\* price x 1.2 exactly when none of rules 1..7 matches.
C13_HoldExactlyWhenNoRule ==
    c_pc = "done" =>
        /\ chart_result # None
        /\ IsSpecifiedHold(Unwrap(chart_result), Unwrap(chart_market))
               <=> \A n \in 1..7 : ~RuleHolds(n, Unwrap(chart_market))

(***************************************************************************)
(* Claims about the Metrics Calculator                                     *)
(***************************************************************************)

\* C17: calculate_metrics on an empty trade list returns Ok, never an error,
\* with total_trades = 0, win_rate = 0, sharpe_ratio = None and
\* max_drawdown = 0.
C17_EmptyHistoryGivesZeroMetrics ==
    (wm_pc = "done" /\ wm_trades = <<>>) =>
        /\ Unwrap(wm_result).ok
        /\ Unwrap(Unwrap(wm_result).value).total_trades = 0
        /\ Unwrap(Unwrap(wm_result).value).win_rate[1] = 0
        /\ Unwrap(Unwrap(wm_result).value).sharpe_ratio = None
        /\ Unwrap(Unwrap(wm_result).value).max_drawdown[1] = 0

\* C17's case: calculate_metrics has returned for the empty list
C17_Witness ==
    wm_pc = "done" /\ wm_trades = <<>> /\ wm_result # None

\* the positions reconstructed from trade list ts
MetricsPositions(ts) ==
    group_trades_into_positions(ts, CHOOSE order \in TokenOrders : TRUE)

\* indices of the Closed positions of pos, and of those with zero PnL
ClosedIndices(pos) == { i \in 1..Len(pos) : pos[i].status = "Closed" }

ZeroPnlIndices(pos) == { i \in ClosedIndices(pos) : pos[i].pnl = Some(0) }

\* C18: winning_trades + losing_trades <= total_trades, total_trades being the
\* number of Closed positions, with equality exactly when no Closed position
\* has zero PnL; a zero-PnL Closed position counts in total_trades and in
\* neither winning_trades nor losing_trades.
C18_WinsPlusLossesAtMostTotal ==
    wm_pc = "done" =>
        /\ Unwrap(wm_result).ok
        /\ LET m == Unwrap(Unwrap(wm_result).value)
                pos == MetricsPositions(wm_trades)
                closed == Cardinality(ClosedIndices(pos))
                zero == Cardinality(ZeroPnlIndices(pos))
            IN  /\ m.total_trades = closed
                /\ m.winning_trades + m.losing_trades <= m.total_trades
                /\ m.winning_trades + m.losing_trades = m.total_trades <=> zero = 0
                /\ m.winning_trades + m.losing_trades + zero = m.total_trades

\* C18's case: a Closed position with zero PnL next to one that won or lost
C18_Witness ==
    /\ wm_pc = "done"
    /\ ZeroPnlIndices(MetricsPositions(wm_trades)) # {}
    /\ Unwrap(Unwrap(wm_result).value).winning_trades
           + Unwrap(Unwrap(wm_result).value).losing_trades > 0

(***************************************************************************)
(* Claims about the Backtest Engine                                        *)
(***************************************************************************)

\* the PnL of ledger entry t recomputed with position size `size`:
\* (exit - entry) / entry x size
RecomputedPnl(t, size) ==
    ((t.exit_price[2] - t.entry_price[2]) * size) \div t.entry_price[2]

\* the sum of the recomputed PnLs of the ledger that are > 0 (sign = 1) or
\* < 0 (sign = -1)
RECURSIVE GrossOf(_, _, _, _)
GrossOf(ledger, n, size, sign) ==
    IF n = 0 THEN 0
    ELSE GrossOf(ledger, n - 1, size, sign)
         + (IF Sgn(RecomputedPnl(ledger[n], size)) = sign
            THEN RecomputedPnl(ledger[n], size) ELSE 0)

\* C19: the report's profit_factor is (sum of the PnL of winning trades) /
\* |sum of the PnL of losing trades|, and 0 when there are no losses, each PnL
\* being the one recomputed with the configured position size; for one winning
\* and one losing trade that is win_pnl / |loss_pnl|.
C19_ProfitFactor ==
    (bt_pc = "done" /\ Unwrap(bt_result).kind = "Ok") =>
        LET size == Unwrap(bt_config).position_size
            wins == GrossOf(bt_ledger, Len(bt_ledger), size, 1)
            losses == GrossOf(bt_ledger, Len(bt_ledger), size, -1)
            profit_factor == Unwrap(Unwrap(bt_result).value).profit_factor
        IN  IF losses < 0
            THEN profit_factor[1] * (-losses) = wins * profit_factor[2]
            ELSE profit_factor[1] = 0

\* C19's case: a report for a ledger of one winning and one losing trade
C19_Witness ==
    /\ bt_pc = "done"
    /\ Unwrap(bt_result).kind = "Ok"
    /\ Len(bt_ledger) = 2
    /\ Unwrap(Unwrap(bt_result).value).winning_trades = 1
    /\ Unwrap(Unwrap(bt_result).value).biggest_loss < 0
    /\ Unwrap(Unwrap(bt_result).value).profit_factor[1] > 0

\* C20: run returns an error if and only if the ledger has no closed trades;
\* for every non-empty ledger, whatever its entry and exit price fields are,
\* it returns a report.
C20_ErrorOnlyForEmptyLedger ==
    bt_pc = "done" =>
        /\ Unwrap(bt_result).kind = "Err" <=> bt_ledger = <<>>
        /\ bt_ledger # <<>> => Unwrap(bt_result).kind = "Ok"

(***************************************************************************)
(* C21: within one analysis cycle all wallets' 24h and 7d windows are cut  *)
(* from the same now, so a trade event of a given timestamp is inside the  *)
(* window of every wallet analysed in the cycle or of none.                *)
(***************************************************************************)
InWindow(timestamp, now, seconds) == timestamp >= now - seconds

C21_SameWindowForAllWallets ==
    \A w1 \in DOMAIN window_now, w2 \in DOMAIN window_now :
        \A timestamp \in AnalysisTimes, seconds \in {Day, Week} :
            InWindow(timestamp, window_now[w1], seconds)
                <=> InWindow(timestamp, window_now[w2], seconds)

(***************************************************************************)
(* C26: in every cycle the convergence detector receives the analyses and  *)
(* trades only of wallets analysed successfully in that cycle with a score *)
(* >= the minimum; nothing kept from an earlier cycle is handed to it.     *)
(***************************************************************************)
C26_DetectorGetsOnlyThisCycle ==
    detector_input # None =>
        /\ DOMAIN Unwrap(detector_input).wallet_analyses \subseteq passed
        /\ DOMAIN Unwrap(detector_input).all_trades \subseteq passed

(***************************************************************************)
(* C22: after any sequence of open_position, update_prices and             *)
(* close_position calls total_trades = wins + losses = the number of       *)
(* ClosedTrade records, total_pnl is the sum of their pnl and              *)
(* portfolio_value = starting_value + total_pnl; a close of an open asset  *)
(* removes it from the open set and appends exactly one ClosedTrade whose  *)
(* pnl is (exit_price - entry_price) * amount / entry_price.               *)
(***************************************************************************)
StatsMatchClosedTrades ==
    LET stats == portfolio.daily_stats
        closed == portfolio.closed_trades
    IN  /\ stats.total_trades = stats.wins + stats.losses
        /\ stats.total_trades = Len(closed)
        /\ stats.total_pnl = SumPnl(closed, Len(closed))
        /\ stats.portfolio_value = stats.starting_value + stats.total_pnl

\* what a step does to the open set and the ClosedTrade records
CloseAppendsOne ==
    LET closed == portfolio.closed_trades
        closed_after == portfolio'.closed_trades
        gone == { k \in Tokens : portfolio.positions[k] # None
                                    /\ portfolio'.positions[k] = None }
    IN  IF gone = {} THEN closed_after = closed
        ELSE /\ Cardinality(gone) = 1
             /\ Len(closed_after) = Len(closed) + 1
             /\ SubSeq(closed_after, 1, Len(closed)) = closed
             /\ LET trade == closed_after[Len(closed_after)]
                    position == Unwrap(portfolio.positions[trade.token_mint])
                IN  /\ trade.token_mint \in gone
                    /\ trade.entry_price = position.entry_price
                    /\ trade.pnl = ((trade.exit_price - position.entry_price)
                                        * position.amount) \div position.entry_price

C22_StatsAndCloseBookkeeping ==
    /\ [](m_pc = "api" => StatsMatchClosedTrades)
    /\ [][m_pc = "api" => CloseAppendsOne]_vars

\* two closes, a win and one of pnl 0, while an asset is open
C22_Witness ==
    /\ m_pc = "api"
    /\ Len(portfolio.closed_trades) = 2
    /\ \E i, j \in 1..2 :
          /\ portfolio.closed_trades[i].pnl > 0
          /\ portfolio.closed_trades[j].pnl = 0
    /\ get_position_mints(portfolio) # {}

(***************************************************************************)
(* C23: a position held for more than 24 hours (more than 1440 minutes)    *)
(* with unrealized_pnl_pct < 5 is exited in that evaluation, by the        *)
(* time-based rule when no earlier exit condition holds.                   *)
(***************************************************************************)
C23_TimeExitAfter24Hours ==
    ex_pc = "done" =>
        LET position == Unwrap(ex_position)
        IN  (position.hold_time_minutes > 24 * 60 /\ position.unrealized_pnl_pct < 5)
                => Unwrap(ex_result) \in {"stop_loss", "take_profit", "strong_sell", "time"}

(***************************************************************************)
(* C24: within one cycle the refresh precedes the exit evaluation: the     *)
(* exit decision for a position is the one taken on unrealized_pnl_pct and *)
(* hold time recomputed from the price fetched in that cycle, not on the   *)
(* values the previous cycle (or open_position) left in the position.      *)
(***************************************************************************)
\* the portfolio with every fetched position refreshed from this cycle's fetch
RefreshedFrom(pf, results, now) ==
    update_prices(pf,
        [k \in Tokens |->
            IF k \in DOMAIN results /\ results[k] # None
            THEN Some(<<Unwrap(results[k]).price_usd, Unwrap(results[k]).market_cap>>)
            ELSE None],
        now)

C24_ExitEvaluatedAfterRefresh ==
    [][ (m_pc = "signals" /\ m_pc' = "check") =>
          \A mints \in MintOrders(portfolio),
             results \in [get_position_mints(portfolio) -> FetchResults] :
              LET acc == FetchLoop(portfolio, mints, results, Len(mints))
                  fresh == FetchLoop(RefreshedFrom(portfolio, results, clock),
                                     mints, results, Len(mints))
              IN  (/\ prices_to_update' = acc.prices
                   /\ positions_to_close' = acc.to_close
                   /\ fetch_failed' = acc.failed
                   /\ exit_log' = acc.log)
                      => (acc.to_close = fresh.to_close /\ acc.log = fresh.log) ]_vars

(***************************************************************************)
(* C25: a closed trade is appended to the trade ledger, and a              *)
(* position-closed notification is sent, only in a cycle in which a        *)
(* position was newly closed; over any number of cycles each ClosedTrade   *)
(* appears in the ledger at most once.                                     *)
(***************************************************************************)
\* how many entries of the sequence equal x
Occurrences(s, x) == Cardinality({i \in 1..Len(s) : s[i] = x})

\* a position was closed in the cycle that is running
ClosedThisCycle ==
    \E i \in 1..Len(portfolio.closed_trades) :
        portfolio.closed_trades[i].exit_time = clock

LedgerHoldsEachTradeOnce ==
    \A i \in 1..Len(portfolio.closed_trades) :
        Occurrences(trade_history.closed_trades,
                    SerializableClosedTrade(portfolio.closed_trades[i]))
            <= Occurrences(portfolio.closed_trades, portfolio.closed_trades[i])

PersistOnlyAfterClose ==
    (\/ trade_history'.closed_trades # trade_history.closed_trades
     \/ notifications' # notifications) => ClosedThisCycle

C25_LedgerAppendOnlyOnNewClose ==
    /\ [](m_pc \in {"signals", "check", "persist", "sleep"} => LedgerHoldsEachTradeOnce)
    /\ [][m_pc = "persist" => PersistOnlyAfterClose]_vars

(***************************************************************************)
(* C27: no opened position is ever lost: the main loop never calls         *)
(* open_position for an asset that still has an open position, so the      *)
(* number of positions opened always equals the number of open positions   *)
(* plus the number of ClosedTrade records.                                 *)
(***************************************************************************)
C27_OpenedEqualsOpenPlusClosed ==
    m_pc \in {"signals", "check", "persist", "sleep"} =>
        opened = Cardinality(get_position_mints(portfolio))
                     + Len(portfolio.closed_trades)

(***************************************************************************)
(* C28: the main loop opens a position for an asset only if in that cycle  *)
(* a security report for the asset was obtained, from the service or its   *)
(* cache, and flags neither is_scam nor is_bundle; a failed lookup         *)
(* (transport error or non-success HTTP status) never leads to an open.    *)
(***************************************************************************)
C28_OpenOnlyWithCleanReport ==
    en_opened # None =>
        /\ en_lookup \in {"report", "cache"}
        /\ Unwrap(en_security).ok
        /\ ~Unwrap(Unwrap(en_security).value).is_scam
        /\ ~Unwrap(Unwrap(en_security).value).is_bundle

(***************************************************************************)
(* C29: replaying a non-empty ledger in ledger order, run yields           *)
(* ending_capital = starting_capital + the sum over all trades of          *)
(* (exit - entry) / entry x position_size, total_pnl = ending_capital -    *)
(* starting_capital, and max_drawdown_pct = the maximum over all replay    *)
(* steps of (peak - capital) / peak x 100, peak being the highest running  *)
(* capital reached so far, the starting capital included.                  *)
(***************************************************************************)
\* the running capital after the first k trades of the ledger
RECURSIVE CapitalAfter(_, _, _)
CapitalAfter(ledger, k, config) ==
    IF k = 0 THEN config.starting_capital
    ELSE CapitalAfter(ledger, k - 1, config)
         + RecomputedPnl(ledger[k], config.position_size)

\* the highest running capital of steps 0..k
RECURSIVE PeakAfter(_, _, _)
PeakAfter(ledger, k, config) ==
    IF k = 0 THEN config.starting_capital
    ELSE LET before == PeakAfter(ledger, k - 1, config)
             capital == CapitalAfter(ledger, k, config)
         IN  IF capital > before THEN capital ELSE before

\* (peak - capital) / peak x 100 at step k, as a fraction
DrawdownAt(ledger, k, config) ==
    << (PeakAfter(ledger, k, config) - CapitalAfter(ledger, k, config)) * 100,
       PeakAfter(ledger, k, config) >>

C29_ReplayCapitalAndDrawdown ==
    (bt_pc = "done" /\ Unwrap(bt_result).kind = "Ok") =>
        LET config == Unwrap(bt_config)
            report == Unwrap(Unwrap(bt_result).value)
            steps == 1..Len(bt_ledger)
            worst == report.max_drawdown_pct
        IN  /\ bt_ledger # <<>>
            /\ report.ending_capital = CapitalAfter(bt_ledger, Len(bt_ledger), config)
            /\ report.total_pnl = report.ending_capital - config.starting_capital
            /\ \A k \in steps :
                   worst[1] * DrawdownAt(bt_ledger, k, config)[2]
                       >= DrawdownAt(bt_ledger, k, config)[1] * worst[2]
            /\ \E k \in steps :
                   worst[1] * DrawdownAt(bt_ledger, k, config)[2]
                       = DrawdownAt(bt_ledger, k, config)[1] * worst[2]

\* a report for a ledger whose capital first rises above the starting capital
\* and then falls below that peak
C29_Witness ==
    /\ bt_pc = "done"
    /\ Unwrap(bt_result).kind = "Ok"
    /\ Len(bt_ledger) = 3
    /\ Unwrap(Unwrap(bt_result).value).max_drawdown_pct[1] > 0
    /\ Unwrap(Unwrap(bt_result).value).max_drawdown_pct[2]
           > Unwrap(bt_config).starting_capital
    /\ Unwrap(bt_config).starting_capital > 0

(***************************************************************************)
(* C30: with N fallback endpoints one execute_with_fallback call returns   *)
(* the first successful result or, after exactly N + 1 failed attempts, an *)
(* RpcError; each attempt of the call uses a different endpoint, so every  *)
(* configured endpoint is tried once before the error, and current_index   *)
(* always stays within 0..N.                                               *)
(***************************************************************************)
C30_EveryEndpointTriedOnce ==
    rpc_pc \in {"loop", "returned"} =>
        /\ current_index \in 0..fallbacks
        /\ \A i, j \in 1..Len(rpc_tried) :
               i # j => rpc_tried[i].endpoint # rpc_tried[j].endpoint
        /\ rpc_result = Some("Ok") =>
               /\ rpc_tried[Len(rpc_tried)].ok
               /\ \A i \in 1..(Len(rpc_tried) - 1) : ~rpc_tried[i].ok
        /\ rpc_result = Some("RpcError") =>
               /\ Len(rpc_tried) = fallbacks + 1
               /\ attempts = fallbacks + 1
               /\ {rpc_tried[i].endpoint : i \in 1..Len(rpc_tried)} = 0..fallbacks
               /\ \A i \in 1..Len(rpc_tried) : ~rpc_tried[i].ok
        /\ rpc_result = None => \A i \in 1..Len(rpc_tried) : ~rpc_tried[i].ok

\* a call that started on the last fallback and failed on every endpoint
C30_Witness ==
    /\ rpc_pc = "returned"
    /\ rpc_result = Some("RpcError")
    /\ fallbacks = MaxFallbacks
    /\ rpc_tried[1].endpoint = fallbacks

====
